----------------------------- MODULE JpegMarkers -----------------------------
(***************************************************************************)
(* The datastream of libjpeg: the destinations that take it (jdatadst.c),  *)
(* the marker writer (jcmarker.c) and, to say what a written stream means, *)
(* the marker reader (jdmarker.c).                                         *)
(*                                                                         *)
(* A stream is a sequence of items: markers with their parameters, and the *)
(* MCUs of the entropy-coded segments.  An item takes one place in the     *)
(* output buffer.  A table is known by a version number.                   *)
(*                                                                         *)
(* A routine maps the compression object s to the object it leaves; when   *)
(* s.left is set, an ERREXIT has left the library and nothing follows.     *)
(***************************************************************************)
EXTENDS JpegParameters, LongLoops

M(kind) == [kind |-> kind]

(* error_exit leaves, unless the application's handler returns.             *)
ERREXIT(s) == [s EXCEPT !.errors = @ + 1, !.left = ~s.client.returns]

-----------------------------------------------------------------------------
(* Destinations: "stdio" writes the full buffer to a file on a disk with    *)
(* room for so many items; "mem" doubles its buffer, up to the same room;   *)
(* "suspending" is a client's own, whose buffer the client empties itself.  *)

init_destination(s) == [s EXCEPT !.dest.held = <<>>, !.dest.size = s.client.capacity]

(* fwrite may take data into its own buffer that the disk has no room for:  *)
(* then the error only shows when the file is flushed.                      *)
JFWRITE(s, items) ==
    LET room == s.client.disk - Len(s.dest.file)
        written == [s EXCEPT !.dest.file = @ \o (IF Len(items) <= room THEN items
                                                 ELSE SubSeq(items, 1, room))]
    IN  IF Len(items) <= room THEN written
        ELSE IF s.client.late THEN [written EXCEPT !.dest.ferror = TRUE]
        ELSE ERREXIT([written EXCEPT !.dest.ferror = TRUE])

empty_output_buffer(s) ==
    LET written == JFWRITE(s, s.dest.held)
    IN  IF written.left THEN written ELSE [written EXCEPT !.dest.held = <<>>]

empty_mem_output_buffer(s) ==
    IF s.dest.size * 2 > s.client.disk THEN ERREXIT(s) ELSE [s EXCEPT !.dest.size = @ * 2]

FlushFile(s) == IF s.dest.ferror /\ ~s.left THEN ERREXIT(s) ELSE s

term_destination(s) ==
    FlushFile([JFWRITE(s, s.dest.held) EXCEPT !.dest.held = <<>>])

term_mem_destination(s) ==
    [s EXCEPT !.dest.file = @ \o s.dest.held, !.dest.held = <<>>]

Terminated(s) ==
    CASE s.left -> s
      [] ~s.left /\ s.client.dest = "stdio" -> term_destination(s)
      [] ~s.left /\ s.client.dest # "stdio" -> term_mem_destination(s)

Put(s, item) == [s EXCEPT !.dest.held = Append(@, item)]
BufferFull(s) == Len(s.dest.held) >= s.dest.size

(* A marker may not be suspended.                                           *)
emit_marker(s, item) ==
    With(Put(s, item), LAMBDA t :
        CASE s.left -> s
          [] ~s.left /\ ~BufferFull(t) -> t
          [] ~s.left /\ BufferFull(t) /\ s.client.dest = "stdio" -> empty_output_buffer(t)
          [] ~s.left /\ BufferFull(t) /\ s.client.dest = "mem" -> empty_mem_output_buffer(t)
          [] ~s.left /\ BufferFull(t) /\ s.client.dest = "suspending" -> ERREXIT(t))

-----------------------------------------------------------------------------
(* The marker writer.                                                      *)

emit_dqt(s, index) ==
    IF s.quant[index].sent_table THEN s
    ELSE [emit_marker(s, [kind |-> "DQT", index |-> index, version |-> s.quant[index].version])
            EXCEPT !.quant[index].sent_table = TRUE]

emit_dht(s, class, index) ==
    IF s.huff[class][index].sent_table THEN s
    ELSE [emit_marker(s, [kind |-> "DHT", class |-> class, index |-> index,
                          version |-> s.huff[class][index].version])
            EXCEPT !.huff[class][index].sent_table = TRUE]

emit_dri(s) == emit_marker(s, [kind |-> "DRI", restart_interval |-> s.restart_interval])

emit_sof(s, code) ==
    emit_marker(s, [kind |-> "SOF", code |-> code, jpeg |-> s.d.jpeg,
                    comps |-> [ci \in DOMAIN s.d.comps |->
                        <<s.d.comps[ci].component_id, s.d.comps[ci].h_samp_factor,
                          s.d.comps[ci].v_samp_factor, s.d.comps[ci].quant_tbl_no>>]])

(* The table numbers a scan names, 0 for a table it does not use.           *)
emit_sos(s) ==
    LET scan == s.scan
        comp(i) == s.d.comps[scan.comps[i]]
    IN  emit_marker(s, [kind |-> "SOS", Ss |-> scan.Ss, Se |-> scan.Se, Ah |-> scan.Ah, Al |-> scan.Al,
            comps |-> [i \in DOMAIN scan.comps |->
                <<comp(i).component_id,
                  IF scan.Ss = 0 /\ scan.Ah = 0 THEN comp(i).dc_tbl_no ELSE 0,
                  IF scan.Se # 0 THEN comp(i).ac_tbl_no ELSE 0>>]])

emit_pseudo_sos(s) ==
    emit_marker(s, [kind |-> "SOS", comps |-> <<>>, Ss |-> 0,
                    Se |-> s.p.block_size * s.p.block_size - 1, Ah |-> 0, Al |-> 0])

emit_jfif_app0(s) == emit_marker(s, M("APP0"))
emit_adobe_app14(s) == emit_marker(s, M("APP14"))

write_marker(s) == emit_marker(s, M("COM"))

write_file_header(s) ==
    LET soi == [emit_marker(s, M("SOI")) EXCEPT !.last_restart_interval = 0]
        jfif == IF s.p.write_JFIF_header THEN emit_jfif_app0(soi) ELSE soi
    IN  IF s.p.write_Adobe_marker THEN emit_adobe_app14(jfif) ELSE jfif

(* Baseline, extended sequential or progressive.                            *)
SofCode(s) ==
    IF s.d.progressive_mode THEN 2
    ELSE IF s.p.block_size = 8 /\ \A ci \in DOMAIN s.d.comps :
                s.d.comps[ci].dc_tbl_no <= 1 /\ s.d.comps[ci].ac_tbl_no <= 1
    THEN 0 ELSE 1

write_frame_header(s) ==
    LET tables == LongLoop(Len(s.d.comps), LAMBDA t, ci : emit_dqt(t, t.d.comps[ci].quant_tbl_no), s)
        framed == emit_sof(tables, SofCode(s))
    IN  IF s.d.progressive_mode /\ s.p.block_size # 8 THEN emit_pseudo_sos(framed) ELSE framed

write_scan_header(s) ==
    LET dc(t, comp) == IF s.scan.Ss = 0 /\ s.scan.Ah = 0 THEN emit_dht(t, "dc", comp.dc_tbl_no) ELSE t
        ac(t, comp) == IF s.scan.Se # 0 THEN emit_dht(t, "ac", comp.ac_tbl_no) ELSE t
        tables == LongLoop(Len(s.scan.comps), LAMBDA t, i :
                    With(s.d.comps[s.scan.comps[i]], LAMBDA comp : ac(dc(t, comp), comp)), s)
        restart == IF s.restart_interval = s.last_restart_interval THEN tables
                   ELSE [emit_dri(tables) EXCEPT !.last_restart_interval = s.restart_interval]
    IN  emit_sos(restart)

write_file_trailer(s) == emit_marker(s, M("EOI"))

write_tables_only(s) ==
    LET quant == LongLoop(2, LAMBDA t, i : emit_dqt(t, i - 1), emit_marker(s, M("SOI")))
        huff == LongLoop(2, LAMBDA t, i : emit_dht(emit_dht(t, "dc", i - 1), "ac", i - 1), quant)
    IN  write_file_trailer(huff)

-----------------------------------------------------------------------------
(* The marker reader.  It has the tables of all streams so far; images are  *)
(* the images read, each a sequence of scans with their MCUs and the tables *)
(* that were defined.  With ok unset it has met an error (ERREXIT).         *)

NoTable == -1

ReaderStart ==
    [ok |-> TRUE, saw_SOI |-> FALSE, saw_SOF |-> FALSE, frame |-> M("none"), in_scan |-> FALSE,
     quant |-> [t \in 0..1 |-> NoTable], huff |-> [c \in {"dc", "ac"} |-> [t \in 0..1 |-> NoTable]],
     restart_interval |-> 0, scans |-> <<>>, images |-> <<>>]

reset_marker_reader(r) ==
    [r EXCEPT !.saw_SOI = FALSE, !.saw_SOF = FALSE, !.frame = M("none"), !.in_scan = FALSE, !.scans = <<>>]

get_soi(r) == [r EXCEPT !.ok = ~r.saw_SOI, !.saw_SOI = TRUE, !.restart_interval = 0]

get_sof(r, item) ==
    [r EXCEPT !.ok = ~r.saw_SOF /\ item.jpeg[1] > 0 /\ item.jpeg[2] > 0 /\ item.comps # <<>>,
              !.saw_SOF = TRUE, !.frame = item]

(* Without components it is the pseudo marker of progressive mode.          *)
get_sos(r, item) ==
    LET n == Len(item.comps)
        known(i) == \E ci \in DOMAIN r.frame.comps : r.frame.comps[ci][1] = item.comps[i][1]
        begun == [sos |-> item, mcus |-> <<>>, quant |-> r.quant, huff |-> r.huff,
                  restart_interval |-> r.restart_interval]
    IN  IF ~r.saw_SOF \/ n > MAX_COMPS_IN_SCAN \/ (n = 0 /\ r.frame.code # 2)
        THEN [r EXCEPT !.ok = FALSE]
        ELSE IF \E i \in 1..n : ~known(i) THEN [r EXCEPT !.ok = FALSE]
        ELSE IF n = 0 THEN r
        ELSE [r EXCEPT !.in_scan = TRUE, !.scans = Append(@, begun)]

get_dqt(r, item) == [r EXCEPT !.quant[item.index] = item.version]
get_dht(r, item) == [r EXCEPT !.huff[item.class][item.index] = item.version]
get_dri(r, item) == [r EXCEPT !.restart_interval = item.restart_interval]

ReadMcu(r, item) ==
    IF ~r.in_scan THEN [r EXCEPT !.ok = FALSE]
    ELSE [r EXCEPT !.scans[Len(r.scans)].mcus = Append(@, item)]

ReachedEoi(r) ==
    reset_marker_reader([r EXCEPT !.images = Append(@, [frame |-> r.frame, scans |-> r.scans])])

(* first_marker wants SOI before everything else.                           *)
read_markers(r, item) ==
    CASE ~r.ok -> r
      [] r.ok /\ ~r.saw_SOI /\ item.kind # "SOI" -> [r EXCEPT !.ok = FALSE]
      [] r.ok /\ item.kind = "SOI" -> get_soi(r)
      [] r.ok /\ r.saw_SOI /\ item.kind = "SOF" -> get_sof(r, item)
      [] r.ok /\ r.saw_SOI /\ item.kind = "SOS" -> get_sos(r, item)
      [] r.ok /\ r.saw_SOI /\ item.kind = "DQT" -> get_dqt(r, item)
      [] r.ok /\ r.saw_SOI /\ item.kind = "DHT" -> get_dht(r, item)
      [] r.ok /\ r.saw_SOI /\ item.kind = "DRI" -> get_dri(r, item)
      [] r.ok /\ r.saw_SOI /\ item.kind = "MCU" -> ReadMcu(r, item)
      [] r.ok /\ r.saw_SOI /\ item.kind = "EOI" -> ReachedEoi(r)
      [] r.ok /\ r.saw_SOI /\ item.kind \in {"APP0", "APP14", "COM"} -> r

ReadStream(items) == LongLoop(Len(items), LAMBDA r, i : read_markers(r, items[i]), ReaderStart)
=============================================================================
