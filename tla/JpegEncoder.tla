----------------------------- MODULE JpegEncoder -----------------------------
(***************************************************************************)
(* The compressor of libjpeg from the calls of its client to the           *)
(* datastream: the API (jcapimin.c, jcapistd.c, jcinit.c), the master      *)
(* control of the passes (jcmaster.c), the preprocessing and main buffers  *)
(* (jcprepct.c, jcsample.c, jcmainct.c) and the coefficient controller     *)
(* (jccoefct.c), over the markers and destinations of JpegMarkers.         *)
(*                                                                         *)
(* A sample row is the set of the input lines it was made from.  A block   *)
(* is its component, its column and its sample rows; a dummy block is the  *)
(* block whose DC it repeats.  The entropy coder puts out an MCU whole,    *)
(* with the tables it uses, or suspends.                                   *)
(***************************************************************************)
EXTENDS JpegMarkers, TLC

CONSTANTS
    Clients     \* records [p, dest, capacity, disk, late, returns, lines, images, tables,
                \*          abbreviated, comment, raw, requant, aborts]: the parameters, the
                \*          destination, the lines of a call and what else the client does

VARIABLES
    cinfo       \* struct jpeg_compress_struct with its modules

NoBuffer == <<>>

(* After jpeg_create_compress, the choice of a destination and the setting  *)
(* of the parameters.                                                       *)
jpeg_CreateCompress(client) ==
    [client |-> client, p |-> client.p, global_state |-> "START", left |-> FALSE, errors |-> 0,
     images |-> 0, commented |-> FALSE,
     quant |-> [t \in 0..1 |-> [version |-> 0, sent_table |-> FALSE]],
     huff |-> [c \in {"dc", "ac"} |-> [t \in 0..1 |-> [version |-> 0, sent_table |-> FALSE]]],
     d |-> <<>>, next_scanline |-> 0, scan |-> <<>>, layout |-> <<>>, restart_interval |-> 0,
     last_restart_interval |-> 0,
     master |-> [pass_type |-> "main_pass", pass_number |-> 0, total_passes |-> 0, scan_number |-> 0,
                 call_pass_startup |-> FALSE, is_last_pass |-> FALSE],
     prep |-> [next_buf_row |-> 0, rows_to_go |-> 0, this_row_group |-> 0, next_buf_stop |-> 0,
               color_buf |-> NoBuffer],
     main |-> [cur_iMCU_row |-> 0, rowgroup_ctr |-> 0, suspended |-> FALSE, buffer |-> NoBuffer],
     coef |-> [mode |-> "none", iMCU_row_num |-> 0, mcu_ctr |-> 0, MCU_vert_offset |-> 0,
               whole_image |-> NoBuffer],
     entropy |-> [gather |-> FALSE, huff |-> <<>>, quant |-> <<>>],
     dest |-> [held |-> <<>>, size |-> 0, file |-> <<>>, ferror |-> FALSE]]

EncoderInit == \E client \in Clients : cinfo = jpeg_CreateCompress(client)

-----------------------------------------------------------------------------
(* Downsampling: a row group of max_v input rows becomes v_out_group rows   *)
(* of a component.                                                          *)

VOut(d, comp) == (comp.v_samp_factor * comp.DCT_v_scaled_size) \div d.min_DCT
VExpand(d, comp) == d.max_v \div VOut(d, comp)
HOut(d, comp) == (comp.h_samp_factor * comp.DCT_h_scaled_size) \div d.min_DCT
HExpand(d, comp) == d.max_h \div HOut(d, comp)

(* Only the full-size and the 2:1 by 2:1 methods can smooth; they look at   *)
(* the rows next to those they average.                                     *)
Smooths(p, d, comp) ==
    /\ p.smoothing_factor > 0
    /\ <<HExpand(d, comp), VExpand(d, comp)>> \in {<<1, 1>>, <<2, 2>>}

need_context_rows(p, d) == \E ci \in DOMAIN d.comps : Smooths(p, d, d.comps[ci])

NoDownsampler(d) ==
    \E ci \in DOMAIN d.comps :
        \/ d.max_h % HOut(d, d.comps[ci]) # 0
        \/ d.max_v % VOut(d, d.comps[ci]) # 0

(* The lines of the conversion buffer that sample row r of a row group      *)
(* takes; the buffer of context mode has three groups and wraps around.     *)
SampleRow(p, d, comp, color_buf, in_row_index, r) ==
    LET e == VExpand(d, comp)
        reach == IF Smooths(p, d, comp) THEN 1 ELSE 0
    IN  {color_buf[(in_row_index + r * e + k) % Cardinality(DOMAIN color_buf)] : k \in (-reach)..(e - 1 + reach)}

sep_downsample(s, in_row_index, out_row_group) ==
    [s EXCEPT !.main.buffer = [ci \in DOMAIN @ |->
        LET comp == s.d.comps[ci]
            rows == VOut(s.d, comp)
        IN  [y \in DOMAIN @[ci] |->
                IF y \div rows = out_row_group
                THEN SampleRow(s.p, s.d, comp, s.prep.color_buf, in_row_index, y % rows)
                ELSE @[ci][y]]]]

-----------------------------------------------------------------------------
(* Preprocessing: rows of input into the conversion buffer, row groups into *)
(* the main buffer, which is one iMCU row high.  s.line is the input line   *)
(* that is next, s.line_end the end of what the client supplied.            *)

(* The row above row 0 of a conversion buffer is its last row.              *)
expand_bottom_edge(rows, first, last) ==
    LET bottom == rows[(first - 1) % Cardinality(DOMAIN rows)]
    IN  [y \in DOMAIN rows |-> IF y \in first..last THEN bottom ELSE rows[y]]

ColorConvert(s, stop) ==
    With(SmallestOf({stop - s.prep.next_buf_row, s.line_end - s.line}), LAMBDA numrows :
        [s EXCEPT !.prep.color_buf = [y \in DOMAIN @ |->
                        IF y - s.prep.next_buf_row \in 0..(numrows - 1)
                        THEN s.line + y - s.prep.next_buf_row ELSE @[y]],
                  !.line = @ + numrows,
                  !.prep.next_buf_row = @ + numrows,
                  !.prep.rows_to_go = @ - numrows])

PadColor(s, stop) ==
    [s EXCEPT !.prep.color_buf = expand_bottom_edge(@, s.prep.next_buf_row, stop - 1),
              !.prep.next_buf_row = stop]

PadOutput(s) ==
    [s EXCEPT !.main.buffer = [ci \in DOMAIN @ |->
                    expand_bottom_edge(@[ci], s.main.rowgroup_ctr * VOut(s.d, s.d.comps[ci]),
                                       s.d.min_DCT * VOut(s.d, s.d.comps[ci]) - 1)],
              !.main.rowgroup_ctr = s.d.min_DCT]

(* One turn of the loop; it ends when the input or the room is used up.     *)
PreProcessStep(s) ==
    LET read == ColorConvert(s, s.d.max_v)
        padded(t) == IF t.prep.rows_to_go = 0 /\ t.prep.next_buf_row < t.d.max_v
                     THEN PadColor(t, t.d.max_v) ELSE t
        emptied(t) == IF t.prep.next_buf_row = t.d.max_v
                      THEN [sep_downsample(t, 0, t.main.rowgroup_ctr)
                                EXCEPT !.prep.next_buf_row = 0, !.main.rowgroup_ctr = @ + 1]
                      ELSE t
        bottom(t) == IF t.prep.rows_to_go = 0 /\ t.main.rowgroup_ctr < t.d.min_DCT
                     THEN PadOutput(t) ELSE t
    IN  IF s.line < s.line_end /\ s.main.rowgroup_ctr < s.d.min_DCT
        THEN With(read, LAMBDA t : With(padded(t), LAMBDA u : With(emptied(u), bottom))) ELSE s

pre_process_data(s) == LongLoop(s.line_end - s.line, LAMBDA t, i : PreProcessStep(t), s)

(* The same with context rows: a group is downsampled when the next one is  *)
(* there; above the image stands a copy of its first line.                  *)
TopRows(s) ==
    [s EXCEPT !.prep.color_buf = [y \in DOMAIN @ |-> IF y >= 2 * s.d.max_v THEN @[0] ELSE @[y]]]

ContextStep(s) ==
    LET height == 3 * s.d.max_v
        top(t) == IF s.prep.rows_to_go = s.p.image_height THEN TopRows(t) ELSE t
        more(t) == t.prep.rows_to_go # 0
        padded(t) == IF t.prep.next_buf_row < t.prep.next_buf_stop
                     THEN PadColor(t, t.prep.next_buf_stop) ELSE t
        wrapped(n) == IF n >= height THEN 0 ELSE n
        grouped(t) ==
            IF t.prep.next_buf_row # t.prep.next_buf_stop THEN t
            ELSE [sep_downsample(t, t.prep.this_row_group, t.main.rowgroup_ctr) EXCEPT
                    !.main.rowgroup_ctr = @ + 1,
                    !.prep.this_row_group = wrapped(@ + t.d.max_v),
                    !.prep.next_buf_row = wrapped(@),
                    !.prep.next_buf_stop = wrapped(t.prep.next_buf_row) + t.d.max_v]
    IN  IF s.main.rowgroup_ctr >= s.d.min_DCT THEN s
        ELSE IF s.line < s.line_end
        THEN With(ColorConvert(s, s.prep.next_buf_stop), LAMBDA t : With(top(t), grouped))
        ELSE IF more(s) THEN s ELSE With(padded(s), grouped)

(* Every turn but the last reads a line or fills a row group.               *)
pre_process_context(s) ==
    LongLoop(s.line_end - s.line + s.d.min_DCT, LAMBDA t, i : ContextStep(t), s)

PreProcess(s) == IF need_context_rows(s.p, s.d) THEN pre_process_context(s) ELSE pre_process_data(s)

-----------------------------------------------------------------------------
(* Blocks and MCUs.                                                        *)

RealBlock(s, ci, by, bx) ==
    LET comp == s.d.comps[ci]
        v == comp.DCT_v_scaled_size
    IN  [comp |-> ci, col |-> bx, dummy |-> FALSE,
         rows |-> [y \in 0..(v - 1) |-> s.main.buffer[ci][by * v + y]]]

Dummy(block) == [block EXCEPT !.dummy = TRUE]

(* The blocks of an MCU of the single-pass case.                            *)
DirectMcu(s, yoffset, MCU_col_num) ==
    LET last_col == MCU_col_num = s.layout.MCUs_per_row - 1
        last_row == s.coef.iMCU_row_num = s.d.total_iMCU_rows - 1
        place(i) == s.layout.MCU[i]
        blockcnt(i) == IF last_col THEN place(i).last_col_width ELSE place(i).width
        block(mcu, i, y, x) ==
            IF (~last_row \/ yoffset + y < place(i).last_row_height) /\ x < blockcnt(i)
            THEN RealBlock(s, s.scan.comps[i], yoffset + y, MCU_col_num * place(i).width + x)
            ELSE Dummy(mcu[Len(mcu)])
        component(mcu, i) ==
            LongLoop(place(i).height * place(i).width,
                    LAMBDA m, k : Append(m, block(m, i, (k - 1) \div place(i).width, (k - 1) % place(i).width)),
                    mcu)
    IN  LongLoop(Len(s.scan.comps), component, <<>>)

(* The blocks of an MCU out of the virtual arrays.                          *)
StoredMcu(s, yoffset, MCU_col_num) ==
    LET place(i) == s.layout.MCU[i]
        top(ci) == s.coef.iMCU_row_num * s.d.comps[ci].v_samp_factor + yoffset
        component(mcu, i) ==
            mcu \o [k \in 1..(place(i).height * place(i).width) |->
                s.coef.whole_image[s.scan.comps[i]]
                    [<<top(s.scan.comps[i]) + ((k - 1) \div place(i).width),
                       (MCU_col_num * place(i).width) + ((k - 1) % place(i).width)>>]]
    IN  LongLoop(Len(s.scan.comps), component, <<>>)

(* Block rows of an iMCU row that are not dummy.                            *)
BlockRows(s, ci) ==
    IF s.coef.iMCU_row_num < s.d.total_iMCU_rows - 1 THEN s.d.comps[ci].v_samp_factor
    ELSE LastPart(s.d.comps[ci].height_in_blocks, s.d.comps[ci].v_samp_factor)

(* compress_first_pass: this iMCU row of all components into the virtual    *)
(* arrays, with dummy blocks at the right edge and at the bottom.           *)
StoreRow(s) ==
    LET comp(ci) == s.d.comps[ci]
        top(ci) == s.coef.iMCU_row_num * comp(ci).v_samp_factor
        across(ci) == comp(ci).width_in_blocks
        right(ci, y, x) ==
            IF x < across(ci) THEN RealBlock(s, ci, y, x)
            ELSE Dummy(RealBlock(s, ci, y, across(ci) - 1))
        lastOfMcu(ci, x) == (x \div comp(ci).h_samp_factor + 1) * comp(ci).h_samp_factor - 1
        stored(ci, y, x) ==
            IF y < BlockRows(s, ci) THEN right(ci, y, x)
            ELSE Dummy(right(ci, BlockRows(s, ci) - 1, lastOfMcu(ci, x)))
    IN  [s EXCEPT !.coef.whole_image = [ci \in DOMAIN @ |->
            [b \in DOMAIN @[ci] |->
                IF b[1] - top(ci) \in 0..(comp(ci).v_samp_factor - 1)
                THEN stored(ci, b[1] - top(ci), b[2]) ELSE @[ci][b]]]]

(* The entropy coder: it counts, writes or suspends.                        *)
PutMcu(s, blocks) ==
    LET item == [kind |-> "MCU", blocks |-> blocks, huff |-> s.entropy.huff,
                 quant |-> s.entropy.quant, restart_interval |-> s.restart_interval]
    IN  CASE s.left \/ s.entropy.gather -> [s |-> s, ok |-> TRUE]
          [] ~s.left /\ ~s.entropy.gather /\ s.client.dest = "suspending" ->
                IF BufferFull(Put(s, item)) THEN [s |-> s, ok |-> FALSE]
                ELSE [s |-> Put(s, item), ok |-> TRUE]
          [] ~s.left /\ ~s.entropy.gather /\ s.client.dest # "suspending" ->
                [s |-> emit_marker(s, item), ok |-> TRUE]

MCU_rows_per_iMCU_row(s) ==
    IF Len(s.scan.comps) > 1 THEN 1
    ELSE IF s.coef.iMCU_row_num < s.d.total_iMCU_rows - 1 THEN s.d.comps[s.scan.comps[1]].v_samp_factor
    ELSE s.layout.MCU[1].last_row_height

start_iMCU_row(s) == [s EXCEPT !.coef.mcu_ctr = 0, !.coef.MCU_vert_offset = 0]

(* The MCUs of one iMCU row from where the last call stopped.               *)
McuRow(s, mcu(_, _, _)) ==
    LET per_row == s.layout.MCUs_per_row
        total == per_row * MCU_rows_per_iMCU_row(s)
        begin == s.coef.MCU_vert_offset * per_row + s.coef.mcu_ctr
        suspended(t, k) ==
            [ok |-> FALSE, s |-> [t EXCEPT !.coef.MCU_vert_offset = k \div per_row,
                                           !.coef.mcu_ctr = k % per_row]]
        tried(x, t, k) == IF t.ok THEN t ELSE suspended(x.s, k)
        one(x, i) ==
            IF ~x.ok THEN x
            ELSE With(PutMcu(x.s, mcu(x.s, (begin + i - 1) \div per_row, (begin + i - 1) % per_row)),
                      LAMBDA t : tried(x, t, begin + i - 1))
        completed(x) ==
            IF ~x.ok THEN x ELSE [ok |-> TRUE, s |-> start_iMCU_row([x.s EXCEPT !.coef.iMCU_row_num = @ + 1])]
    IN  completed(LongLoop(total - begin, one, [s |-> s, ok |-> TRUE]))

compress_data(s) == McuRow(s, DirectMcu)
compress_output(s) == McuRow(s, StoredMcu)
compress_first_pass(s) == With(StoreRow(s), compress_output)

CompressData(s) ==
    IF s.coef.mode = "pass_thru" THEN compress_data(s)
    ELSE IF s.coef.mode = "save_and_pass" THEN compress_first_pass(s) ELSE compress_output(s)

-----------------------------------------------------------------------------
(* The main controller.                                                    *)

(* Mutant: a suspended row counts as consumed.                              *)
LeaveLastLine_Not(s) == [s EXCEPT !.stopped = TRUE]

(* A row that the coder did not finish leaves the last line unconsumed.     *)
LeaveLastLine(s) ==
    IF s.main.suspended THEN [s EXCEPT !.stopped = TRUE]
    ELSE [s EXCEPT !.line = @ - 1, !.main.suspended = TRUE, !.stopped = TRUE]

SendRow(s) ==
    LET sent(t) == [t EXCEPT !.line = IF t.main.suspended THEN @ + 1 ELSE @,
                             !.main.suspended = FALSE, !.main.rowgroup_ctr = 0,
                             !.main.cur_iMCU_row = @ + 1]
    IN  With(CompressData(s), LAMBDA x : IF x.ok THEN sent(x.s) ELSE LeaveLastLine(x.s))

MainStep(s) ==
    LET filled(t) == IF t.main.rowgroup_ctr < t.d.min_DCT THEN PreProcess(t) ELSE t
        passed(t) == IF t.main.rowgroup_ctr # t.d.min_DCT THEN [t EXCEPT !.stopped = TRUE] ELSE SendRow(t)
    IN  IF s.stopped \/ s.left \/ s.main.cur_iMCU_row >= s.d.total_iMCU_rows THEN s
        ELSE With(filled(s), passed)

process_data_simple_main(s) == LongLoop(s.d.total_iMCU_rows + 1, LAMBDA t, i : MainStep(t), s)

-----------------------------------------------------------------------------
(* Passes.                                                                 *)

ScanSetup(s) ==
    With(select_scan_parameters(s.p, s.d, s.master.scan_number), LAMBDA scan :
        With(per_scan_setup(s.p, s.d, scan), LAMBDA layout :
            With([s EXCEPT !.scan = scan, !.layout = layout, !.restart_interval = layout.restart_interval],
                 LAMBDA t : IF layout.too_large THEN ERREXIT(t) ELSE t)))

(* The tables as they are when the coder derives its own from them.         *)
StartEntropy(s, gather_statistics) ==
    [s EXCEPT !.entropy.gather = gather_statistics,
              !.entropy.huff = [c \in {"dc", "ac"} |-> [t \in 0..1 |-> s.huff[c][t].version]]]

start_pass_fdctmgr(s) == [s EXCEPT !.entropy.quant = [t \in 0..1 |-> s.quant[t].version]]

start_pass_prep(s) ==
    IF s.client.raw THEN s ELSE
    [s EXCEPT !.prep = [next_buf_row |-> 0, rows_to_go |-> s.p.image_height, this_row_group |-> 0,
                        next_buf_stop |-> 2 * s.d.max_v,
                        color_buf |-> [y \in 0..((IF need_context_rows(s.p, s.d) THEN 3 ELSE 1) * s.d.max_v - 1) |-> -1]]]

start_pass_main(s) ==
    IF s.client.raw THEN s ELSE
    [s EXCEPT !.main = [cur_iMCU_row |-> 0, rowgroup_ctr |-> 0, suspended |-> FALSE,
                        buffer |-> [ci \in DOMAIN s.d.comps |->
                            [y \in 0..(s.d.min_DCT * VOut(s.d, s.d.comps[ci]) - 1) |-> {}]]]]

start_pass_coef(s, mode) == start_iMCU_row([s EXCEPT !.coef.mode = mode, !.coef.iMCU_row_num = 0])

MainPass(s) ==
    LET mode == IF s.master.total_passes > 1 THEN "save_and_pass" ELSE "pass_thru"
        started(t) == start_pass_main(start_pass_coef(
                          StartEntropy(start_pass_fdctmgr(start_pass_prep(t)), t.d.optimize_coding), mode))
    IN  With(ScanSetup(s), LAMBDA t :
            IF t.left THEN t
            ELSE [started(t) EXCEPT !.master.call_pass_startup = ~t.d.optimize_coding])

OutputPass(s) ==
    LET set == IF s.d.optimize_coding THEN s ELSE ScanSetup(s)
        started(t) == start_pass_coef(StartEntropy(t, FALSE), "crank_dest")
        framed(t) == IF t.master.scan_number = 0 THEN write_frame_header(t) ELSE t
    IN  With(started(set), LAMBDA t :
            [write_scan_header(framed(t)) EXCEPT !.master.call_pass_startup = FALSE])

(* A DC refinement scan needs no table and hence no statistics.             *)
HuffOptPass(s) ==
    With(ScanSetup(s), LAMBDA t :
        IF t.scan.Ss # 0 \/ t.scan.Ah = 0
        THEN [start_pass_coef(StartEntropy(t, TRUE), "crank_dest") EXCEPT !.master.call_pass_startup = FALSE]
        ELSE OutputPass([t EXCEPT !.master.pass_type = "output_pass", !.master.pass_number = @ + 1]))

prepare_for_pass(s) ==
    LET prepared(t) == [t EXCEPT !.master.is_last_pass = t.master.pass_number = t.master.total_passes - 1]
    IN  IF s.left THEN s
        ELSE With(CASE s.master.pass_type = "main_pass" -> MainPass(s)
                    [] s.master.pass_type = "huff_opt_pass" -> HuffOptPass(s)
                    [] s.master.pass_type = "output_pass" -> OutputPass(s), prepared)

pass_startup(s) ==
    write_scan_header(write_frame_header([s EXCEPT !.master.call_pass_startup = FALSE]))

(* After a statistics pass the tables of the scan are new, and not sent.    *)
FreshTable(s, class, index) ==
    [s EXCEPT !.huff[class][index] = [version |-> @.version + 1, sent_table |-> FALSE]]

UsedTables(s, class, field) == {s.d.comps[s.scan.comps[i]][field] : i \in DOMAIN s.scan.comps}

finish_pass_gather(s) ==
    LET fresh(t, class, used, i) == IF i - 1 \in used THEN FreshTable(t, class, i - 1) ELSE t
        dc == IF s.scan.Ss = 0 /\ s.scan.Ah = 0 THEN UsedTables(s, "dc", "dc_tbl_no") ELSE {}
        ac == IF s.scan.Se # 0 THEN UsedTables(s, "ac", "ac_tbl_no") ELSE {}
    IN  IF ~s.entropy.gather THEN s
        ELSE LongLoop(2, LAMBDA t, i : fresh(fresh(t, "dc", dc, i), "ac", ac, i), s)

finish_pass_master(s) ==
    LET type == s.master.pass_type
        next == IF type = "output_pass" /\ s.d.optimize_coding THEN "huff_opt_pass" ELSE "output_pass"
        scanDone == type = "output_pass" \/ (type = "main_pass" /\ ~s.d.optimize_coding)
    IN  [finish_pass_gather(s) EXCEPT !.master.pass_type = next,
                                      !.master.scan_number = IF scanDone THEN @ + 1 ELSE @,
                                      !.master.pass_number = @ + 1]

-----------------------------------------------------------------------------
(* The API.                                                                *)

jpeg_suppress_tables(s, suppress) ==
    [s EXCEPT !.quant = [t \in DOMAIN @ |-> [@[t] EXCEPT !.sent_table = suppress]],
              !.huff = [c \in DOMAIN @ |-> [t \in DOMAIN @[c] |-> [@[c][t] EXCEPT !.sent_table = suppress]]]]

jinit_c_master_control(s) ==
    LET d == initial_setup(s.p)
        scans == IF s.p.script = <<>> THEN 1 ELSE Len(d.script)
    IN  IF SetupError(s.p) THEN ERREXIT(s)
        ELSE [s EXCEPT !.d = d, !.p.script = d.script,
                       !.master = [pass_type |-> "main_pass", pass_number |-> 0, scan_number |-> 0,
                                   total_passes |-> IF d.optimize_coding THEN scans * 2 ELSE scans,
                                   call_pass_startup |-> FALSE, is_last_pass |-> FALSE]]

(* The virtual arrays of a run of several passes.                           *)
jinit_c_coef_controller(s) ==
    LET comp(ci) == s.d.comps[ci]
        blocks(ci) == (0..(jround_up(comp(ci).height_in_blocks, comp(ci).v_samp_factor) - 1))
                        \X (0..(jround_up(comp(ci).width_in_blocks, comp(ci).h_samp_factor) - 1))
    IN  [s EXCEPT !.coef.whole_image =
            IF s.master.total_passes = 1 THEN NoBuffer
            ELSE [ci \in DOMAIN s.d.comps |-> [b \in blocks(ci) |-> <<>>]]]

jinit_compress_master(s) ==
    LET sampled(t) == IF ~t.left /\ ~s.client.raw /\ NoDownsampler(t.d) THEN ERREXIT(t) ELSE t
        begun(t) == IF t.left THEN t ELSE write_file_header(jinit_c_coef_controller(t))
    IN  With(jinit_c_master_control(s), LAMBDA t : With(sampled(t), begun))

jpeg_start_compress(s, write_all_tables) ==
    LET reset == init_destination(IF write_all_tables THEN jpeg_suppress_tables(s, FALSE) ELSE s)
    IN  [prepare_for_pass(jinit_compress_master(reset)) EXCEPT
            !.next_scanline = 0, !.global_state = IF s.client.raw THEN "RAW_OK" ELSE "SCANNING"]

StartupOnce(s) == IF s.master.call_pass_startup THEN pass_startup(s) ELSE s

(* The object with the local variables of a call, and without them again.   *)
Locals(s, last) == s @@ [line |-> s.next_scanline, line_end |-> last, stopped |-> FALSE]
Without(s, fields) == [f \in DOMAIN s \ fields |-> s[f]]

jpeg_write_scanlines(s, num_lines) ==
    LET last == SmallestOf({s.next_scanline + num_lines, s.p.image_height})
        consumed(t) == [Without(t, {"line", "line_end", "stopped"}) EXCEPT !.next_scanline = t.line]
    IN  With(StartupOnce(s), LAMBDA t :
            IF t.left THEN t ELSE With(process_data_simple_main(Locals(t, last)), consumed))

(* Raw data: the client's buffer is the iMCU row itself.                    *)
RawRow(s) ==
    [s EXCEPT !.main.buffer = [ci \in DOMAIN s.d.comps |->
        [y \in 0..(s.d.comps[ci].v_samp_factor * s.d.comps[ci].DCT_v_scaled_size - 1) |->
            {(s.next_scanline \div (s.d.max_v * 8))
                * (s.d.comps[ci].v_samp_factor * s.d.comps[ci].DCT_v_scaled_size) + y}]]]

jpeg_write_raw_data(s) ==
    LET done(x) == IF x.ok THEN [x.s EXCEPT !.next_scanline = @ + s.d.max_v * 8] ELSE x.s
    IN  With(StartupOnce(s), LAMBDA t : IF t.left THEN t ELSE With(CompressData(RawRow(t)), done))

jpeg_abort(s) == [s EXCEPT !.global_state = "START", !.coef.whole_image = NoBuffer, !.dest.held = <<>>]

CrankPass(s) ==
    LET row(t, i) == With(CompressData(t), LAMBDA x : IF x.ok THEN x.s ELSE ERREXIT(x.s))
        cranked(t) == IF t.left THEN t
                      ELSE LongLoop(t.d.total_iMCU_rows, LAMBDA u, i : IF u.left THEN u ELSE row(u, i), t)
        finished(t) == IF t.left THEN t ELSE finish_pass_master(t)
    IN  With(prepare_for_pass(s), LAMBDA t : With(cranked(t), finished))

(* The remaining passes, then EOI and the rest of the buffer.               *)
jpeg_finish_compress(s) ==
    LET first == IF s.next_scanline < s.p.image_height THEN ERREXIT(s) ELSE s
        passes(t) == IF t.left THEN t
                     ELSE LongLoop(t.master.total_passes, LAMBDA u, i :
                              IF u.left \/ u.master.is_last_pass THEN u ELSE CrankPass(u), finish_pass_master(t))
        ended(t) == IF t.left THEN t
                    ELSE With(Terminated(write_file_trailer(t)), LAMBDA u :
                            IF u.left THEN u ELSE [jpeg_abort(u) EXCEPT !.images = @ + 1])
    IN  With(first, LAMBDA t : With(passes(t), ended))

jpeg_write_tables(s) == Terminated(write_tables_only(init_destination(s)))

(* Tables installed anew are to be written again.                           *)
jpeg_set_quality_again(s) ==
    [s EXCEPT !.quant = [t \in DOMAIN @ |-> [version |-> @[t].version + 1, sent_table |-> FALSE]]]

jpeg_destroy(s) == [s EXCEPT !.global_state = "destroyed"]

-----------------------------------------------------------------------------
(* The client, which calls in a legal order.                               *)

Ready(state) == cinfo.global_state = state /\ ~cinfo.left
MoreImages == cinfo.images < cinfo.client.images

WriteTables ==
    /\ Ready("START")
    /\ cinfo.client.tables /\ cinfo.dest.file = <<>>
    /\ cinfo' = jpeg_write_tables(cinfo)

StartCompress ==
    /\ Ready("START")
    /\ MoreImages
    /\ \E write_all_tables \in BOOLEAN :
        /\ write_all_tables \/ cinfo.client.abbreviated
        /\ cinfo' = [jpeg_start_compress(cinfo, write_all_tables) EXCEPT !.commented = FALSE]

WriteMarker ==
    /\ Ready("SCANNING")
    /\ cinfo.client.comment /\ ~cinfo.commented /\ cinfo.next_scanline = 0
    /\ cinfo' = [write_marker(cinfo) EXCEPT !.commented = TRUE]

WriteScanlines ==
    /\ Ready("SCANNING")
    /\ cinfo.next_scanline < cinfo.p.image_height
    /\ \E num_lines \in 1..cinfo.client.lines : cinfo' = jpeg_write_scanlines(cinfo, num_lines)

WriteRawData ==
    /\ Ready("RAW_OK")
    /\ cinfo.next_scanline < cinfo.p.image_height
    /\ cinfo' = jpeg_write_raw_data(cinfo)

(* The owner of a suspending destination makes room.                        *)
TakeOutput ==
    /\ cinfo.client.dest = "suspending"
    /\ ~cinfo.left
    /\ cinfo.dest.held # <<>>
    /\ cinfo' = [cinfo EXCEPT !.dest.file = @ \o cinfo.dest.held, !.dest.held = <<>>]

Finish ==
    /\ Ready("SCANNING") \/ Ready("RAW_OK")
    /\ cinfo.next_scanline >= cinfo.p.image_height
    /\ cinfo' = jpeg_finish_compress(cinfo)

SetQuality ==
    /\ Ready("START")
    /\ cinfo.client.requant /\ cinfo.images > 0 /\ cinfo.quant[0].version = 0
    /\ cinfo' = jpeg_set_quality_again(cinfo)

Abort ==
    /\ Ready("SCANNING")
    /\ cinfo.client.aborts
    /\ cinfo' = [jpeg_abort(cinfo) EXCEPT !.dest.file = <<>>, !.images = cinfo.client.images - 1,
                                          !.client.aborts = FALSE]

Destroy ==
    /\ cinfo.global_state # "destroyed"
    /\ cinfo.left \/ (Ready("START") /\ ~MoreImages)
    /\ cinfo' = jpeg_destroy(cinfo)

EncoderNext ==
    \/ WriteTables
    \/ StartCompress
    \/ WriteMarker
    \/ WriteScanlines
    \/ WriteRawData
    \/ TakeOutput
    \/ Finish
    \/ SetQuality
    \/ Abort
    \/ Destroy

EncoderSpec == EncoderInit /\ [][EncoderNext]_cinfo

-----------------------------------------------------------------------------
(* What the stream has to hold, said without buffers and passes.           *)

(* Sample row y of component comp: the lines it covers, or, when smoothed,  *)
(* those and a line on either side; the image goes on above and below with  *)
(* its first and last line, unsmoothed samples with their last row.         *)
SourceLines(c, d, comp, y) ==
    LET e == VExpand(d, comp)
        reach == IF Smooths(c.p, d, comp) THEN 1 ELSE 0
        clamp(line) == IF line < 0 THEN 0
                       ELSE IF line > c.p.image_height - 1 THEN c.p.image_height - 1 ELSE line
        lastRow == jdiv_round_up(c.p.image_height, d.max_v) * VOut(d, comp) - 1
        row == IF need_context_rows(c.p, d) \/ y <= lastRow THEN y ELSE lastRow
    IN  IF c.client.raw THEN {y} ELSE {clamp(row * e + k) : k \in (-reach)..(e - 1 + reach)}

SourceBlock(c, d, ci, by, bx) ==
    LET v == d.comps[ci].DCT_v_scaled_size
    IN  [comp |-> ci, col |-> bx, dummy |-> FALSE,
         rows |-> [y \in 0..(v - 1) |-> SourceLines(c, d, d.comps[ci], by * v + y)]]

(* Block n of component i of the MCU at (row, col): a real one, or a dummy  *)
(* with the DC of the real block coded before it.                           *)
SourceMcu(c, d, comps, row, col) ==
    LET comp(i) == d.comps[comps[i]]
        w(i) == IF Len(comps) = 1 THEN 1 ELSE comp(i).h_samp_factor
        h(i) == IF Len(comps) = 1 THEN 1 ELSE comp(i).v_samp_factor
        block(i, by, bx) ==
            LET y == SmallestOf({by, comp(i).height_in_blocks - 1})
                right == IF by = y THEN bx ELSE col * w(i) + w(i) - 1
                x == SmallestOf({right, comp(i).width_in_blocks - 1})
            IN  IF y = by /\ x = bx THEN SourceBlock(c, d, comps[i], y, x)
                ELSE Dummy(SourceBlock(c, d, comps[i], y, x))
        blocks(i) == [n \in 1..(w(i) * h(i)) |->
                        block(i, (row * h(i)) + ((n - 1) \div w(i)), (col * w(i)) + ((n - 1) % w(i)))]
    IN  LongLoop(Len(comps), LAMBDA mcu, i : mcu \o blocks(i), <<>>)

McusAcross(d, p, comps) ==
    IF Len(comps) = 1 THEN d.comps[comps[1]].width_in_blocks
    ELSE jdiv_round_up(p.image_width * p.block_size, d.max_h * p.block_size * min_DCT_scaled_size(p))

McusDown(d, comps) ==
    IF Len(comps) = 1 THEN d.comps[comps[1]].height_in_blocks ELSE d.total_iMCU_rows

IndexOf(d, id) == CHOOSE ci \in DOMAIN d.comps : d.comps[ci].component_id = id

(* A scan as read: every MCU of it in order, and each coded with the tables *)
(* and the restart interval that the reader had at its SOS.                 *)
ScanComplete(c, d, scan) ==
    LET comps == [i \in DOMAIN scan.sos.comps |-> IndexOf(d, scan.sos.comps[i][1])]
        across == McusAcross(d, c.p, comps)
        same(mcu, i) ==
            /\ mcu.quant[d.comps[comps[i]].quant_tbl_no] = scan.quant[d.comps[comps[i]].quant_tbl_no]
            /\ scan.sos.Ss = 0 /\ scan.sos.Ah = 0 =>
                mcu.huff["dc"][scan.sos.comps[i][2]] = scan.huff["dc"][scan.sos.comps[i][2]]
            /\ scan.sos.Se # 0 =>
                mcu.huff["ac"][scan.sos.comps[i][3]] = scan.huff["ac"][scan.sos.comps[i][3]]
    IN  /\ Len(scan.mcus) = across * McusDown(d, comps)
        /\ \A n \in DOMAIN scan.mcus :
            /\ scan.mcus[n].blocks = SourceMcu(c, d, comps, (n - 1) \div across, (n - 1) % across)
            /\ scan.mcus[n].restart_interval = scan.restart_interval
            /\ \A i \in DOMAIN comps : same(scan.mcus[n], i)

(* The images of a stream; the tables of their own stream have no frame.    *)
ImagesOf(stream) == SelectSeq(stream.images, LAMBDA image : image.frame.kind = "SOF")

Reported == cinfo.errors > 0
ImageDone == cinfo.global_state = "START" /\ cinfo.images > 0 /\ ~Reported

(* When the library has reported no error, a finished image is in the file  *)
(* whole: the stream can be read, every scan has its MCUs in order with the *)
(* right lines in their blocks, and each MCU was coded with the tables and  *)
(* the restart interval that a reader has at that point.  About the passes, *)
(* buffers, suspension and error paths from jpeg_start_compress to          *)
(* jpeg_finish_compress.                                                    *)
StreamReadable ==
    ImageDone => With(ReadStream(cinfo.dest.file), LAMBDA stream :
                With(initial_setup(cinfo.p), LAMBDA d :
                    /\ stream.ok /\ ~stream.saw_SOI
                    /\ Len(ImagesOf(stream)) = cinfo.images
                    /\ \A n \in DOMAIN ImagesOf(stream) :
                        \A j \in DOMAIN ImagesOf(stream)[n].scans :
                            ScanComplete(cinfo, d, ImagesOf(stream)[n].scans[j])))

(* The scans of a finished image send every coefficient of every component  *)
(* to its last bit, each refinement following on the bit before it.  About  *)
(* jpeg_simple_progression, validate_script, reduce_script and the passes   *)
(* that put the scans out.                                                  *)
AllBitsSent ==
    LET sent(scans, id, k) ==
            SelectSeq(scans, LAMBDA scan : /\ \E i \in DOMAIN scan.sos.comps : scan.sos.comps[i][1] = id
                                           /\ k \in scan.sos.Ss..scan.sos.Se)
        complete(s) ==
            /\ s # <<>>
            /\ s[1].sos.Ah = 0 /\ s[Len(s)].sos.Al = 0
            /\ \A n \in 2..Len(s) : s[n].sos.Ah = s[n - 1].sos.Al /\ s[n].sos.Al = s[n].sos.Ah - 1
    IN  ImageDone => With(ReadStream(cinfo.dest.file), LAMBDA stream :
                \A n \in DOMAIN ImagesOf(stream) :
                    \A ci \in DOMAIN cinfo.p.comps :
                        \A k \in 0..initial_setup(cinfo.p).lim_Se :
                            complete(sent(ImagesOf(stream)[n].scans, cinfo.p.comps[ci].component_id, k)))
=============================================================================
