------------------------------ MODULE XimCodec ------------------------------
(* A message of every frame is written by one side and read by the other    *)
(* the way the handlers of i18nPtHdr.c, i18nIc.c, i18nClbk.c and            *)
(* i18nMethod.c do it: sizes and counts first, then token by token; a       *)
(* reader tells the size of a byte array from the length before it, and     *)
(* asks at the head of every loop whether the list ends.                    *)
EXTENDS FrameMgr

CONSTANTS Sizes,    \* sizes of byte arrays
          Counts    \* lengths of lists

ASSUME SizesAssumption == Sizes \subseteq 0 .. 255
ASSUME CountsAssumption == Counts \subseteq Nat

\* What Xlib sends and the server reads.
Requests ==
    [connect |-> connect_fr, open |-> open_fr, close |-> close_fr,
     encoding_negotiation |-> encoding_negotiation_fr,
     query_extension |-> query_extension_fr, get_im_values |-> get_im_values_fr,
     create_ic |-> create_ic_fr, destroy_ic |-> destroy_ic_fr,
     set_ic_values |-> set_ic_values_fr, get_ic_values |-> get_ic_values_fr,
     set_ic_focus |-> set_ic_focus_fr, unset_ic_focus |-> unset_ic_focus_fr,
     reset_ic |-> reset_ic_fr, forward_event |-> forward_event_fr,
     sync_reply |-> sync_reply_fr, ext_move |-> ext_move_fr,
     ext_forward_keyevent |-> ext_forward_keyevent_fr,
     preedit_start_reply |-> preedit_start_reply_fr,
     preedit_caret_reply |-> preedit_caret_reply_fr]

\* What the server sends.
Replies ==
    [packet_header |-> packet_header_fr, connect_reply |-> connect_reply_fr,
     open_reply |-> open_reply_fr, close_reply |-> close_reply_fr,
     set_event_mask |-> set_event_mask_fr,
     encoding_negotiation_reply |-> encoding_negotiation_reply_fr,
     query_extension_reply |-> query_extension_reply_fr,
     get_im_values_reply |-> get_im_values_reply_fr,
     create_ic_reply |-> create_ic_reply_fr, destroy_ic_reply |-> destroy_ic_reply_fr,
     set_ic_values_reply |-> set_ic_values_reply_fr,
     get_ic_values_reply |-> get_ic_values_reply_fr,
     reset_ic_reply |-> reset_ic_reply_fr, commit_chars |-> commit_chars_fr,
     commit_both |-> commit_both_fr, geometry |-> geometry_fr,
     str_conversion |-> str_conversion_fr, preedit_start |-> preedit_start_fr,
     preedit_draw |-> preedit_draw_fr, preedit_caret |-> preedit_caret_fr,
     preedit_done |-> preedit_done_fr, status_start |-> status_start_fr,
     status_draw_text |-> status_draw_text_fr,
     status_draw_bitmap |-> status_draw_bitmap_fr, status_done |-> status_done_fr]

\* Values of attributes and of key events, which are parts of messages.
Parts == [attr_head |-> attr_head_fr, short |-> short_fr, long |-> long_fr,
          xrectangle |-> xrectangle_fr, xpoint |-> xpoint_fr,
          fontset |-> fontset_fr, wire_keyevent |-> wire_keyevent_fr]

Frames == Requests @@ Replies @@ Parts

\* EncodingNegotiatonMessageProc skips a list whose byte length is 0, and so
\* does the peer that reads replies; the other readers start their loop
\* whatever it is, so that the lists Xlib sends them must not be empty.
\* ConnectMessageProc reads no list.  The first of two lists is never empty:
\* Xlib names an encoding, the server an attribute.
Skips == {"encoding_negotiation"} \cup DOMAIN Replies
MayBeEmpty(n) == n \in Skips \cup {"connect"}
TwoLists == {"encoding_negotiation", "open_reply"}

VARIABLES name,    \* the frame
          message, \* what the writer puts: tokens, sizes and counts
          phase,   \* "prepare", "write", "read" or "done"
          fm,      \* the frame manager of the side whose turn it is
          put,     \* how many tokens were put
          at,      \* the item of the frame the reader is at
          left,    \* tokens of the present element it has still to read
          last,    \* the number it has read last
          got      \* the tokens it has read, counters left out

vars == <<name, message, phase, fm, put, at, left, last, got>>

-----------------------------------------------------------------------------
(* The messages of a frame. *)

None == [tokens |-> <<>>, sizes |-> <<>>, counts |-> <<>>]
Join(a, b) == [tokens |-> a.tokens \o b.tokens, sizes |-> a.sizes \o b.sizes,
               counts |-> a.counts \o b.counts]

\* A number that tells its place and its bytes, and a string of n bytes.
Value(size, i) == [k \in 1 .. size |-> 16 * i + k]
String(n) == [k \in 1 .. n |-> 64 + k]

\* A number before a byte array is its length.
RECURSIVE From(_, _, _)
From(frame, i, counts) ==
    IF i > Len(frame) THEN {None}
    ELSE LET item == frame[i]
             rest == From(frame, i + 1, counts)
             isLength == item.type = "BIT" /\ i < Len(frame) /\ frame[i + 1].type = "BARRAY"
             RECURSIVE Lists(_)
             Lists(n) == IF n = 0 THEN {None}
                         ELSE {Join(a, b) : a \in IF item.item.type = "BIT"
                                 THEN {[None EXCEPT !.tokens = <<Value(item.item.size, n)>>]}
                                 ELSE From(item.item.frame, 1, counts),
                               b \in Lists(n - 1)}
             here == CASE isLength -> {[None EXCEPT !.tokens = <<Bytes(item.size, n), String(n)>>,
                                                    !.sizes = <<n>>] : n \in Sizes}
                       [] item.type = "BIT" ->
                            {[None EXCEPT !.tokens = <<Value(item.size, i)>>]}
                       [] item.type = "ITER" ->
                            UNION {{[l EXCEPT !.counts = <<n>>] : l \in Lists(n)} : n \in counts}
                       [] item.type = "POINTER" -> From(item.frame, 1, counts)
                       [] OTHER -> {None}
         IN  {Join(a, b) : a \in here, b \in rest}

Messages(n) ==
    {m \in From(Frames[n], 1, IF MayBeEmpty(n) THEN Counts ELSE Counts \ {0}) :
        n \in TwoLists => m.counts[1] # 0}

-----------------------------------------------------------------------------
Init == /\ name \in DOMAIN Frames
        /\ message \in Messages(name)
        /\ phase = "prepare"
        /\ \E swap \in BOOLEAN : fm = FrameMgrInit(Frames[name], <<>>, swap)
        /\ put = 0 /\ at = 1 /\ left = 0 /\ last = 0 /\ got = <<>>

\* Counts and sizes are told, the buffer is allocated and cleared.
Prepare ==
    /\ phase = "prepare"
    /\ LET told == FoldLeft(FrameMgrSetSize,
                            FoldLeft(FrameMgrSetIterCount, fm, message.counts),
                            message.sizes)
       IN  fm' = [told EXCEPT !.area = [k \in 1 .. FrameMgrGetTotalSize(told) |-> 0]]
    /\ phase' = "write"
    /\ UNCHANGED <<name, message, put, at, left, last, got>>

Put ==
    /\ phase = "write" /\ put < Len(message.tokens)
    /\ fm' = PutToken(fm, message.tokens[put + 1])
    /\ put' = put + 1
    /\ UNCHANGED <<name, message, phase, at, left, last, got>>

\* The message is sent; its reader starts with a frame manager of its own.
Send ==
    /\ phase = "write" /\ put = Len(message.tokens)
    /\ fm' = FrameMgrInit(Frames[name], fm.area, fm.byte_swap)
    /\ phase' = "read"
    /\ UNCHANGED <<name, message, put, at, left, last, got>>

Item == Frames[name][at]
Ends == \/ at > Len(Frames[name])
        \/ name = "connect" /\ Item.type = "COUNTER"


\* One token; it is an array if the frame says so, and then the number read
\* last is its size.
Get(isArray, keep) ==
    LET sized == IF isArray THEN FrameMgrSetSize(fm, last) ELSE fm
        r == GetToken(sized)
    IN  /\ fm' = r.fm
        /\ last' = Number(r.token)
        /\ got' = IF keep THEN Append(got, r.token) ELSE got

\* Numbers, arrays and counters of the frame itself.
ReadToken ==
    /\ phase = "read" /\ ~Ends /\ Item.type \in {"BIT", "BARRAY", "COUNTER"}
    /\ Get(Item.type = "BARRAY", Item.type # "COUNTER")
    /\ at' = IF Item.type = "COUNTER" /\ name \in Skips /\ last' = 0
             THEN at + Item.offset + 1 ELSE at + 1
    /\ UNCHANGED <<name, message, phase, put, left>>

SkipPadding ==
    /\ phase = "read" /\ ~Ends /\ Item.type = "PADDING"
    /\ at' = at + 1
    /\ UNCHANGED <<name, message, phase, fm, put, left, last, got>>

\* The tokens of a frame within the frame, or of an element of a list.
Fields(item) == CASE item.type = "POINTER" ->
                       SelectSeq(item.frame, LAMBDA i : i.type \in {"BIT", "BARRAY"})
                  [] OTHER -> <<item>>

ReadField ==
    /\ phase = "read" /\ left > 0
    /\ LET fields == Fields(IF Item.type = "ITER" THEN Item.item ELSE Item)
       IN  Get(fields[Len(fields) - left + 1].type = "BARRAY", TRUE)
    /\ left' = left - 1
    /\ at' = IF Item.type = "POINTER" /\ left = 1 THEN at + 1 ELSE at
    /\ UNCHANGED <<name, message, phase, put>>

EnterFrame ==
    /\ phase = "read" /\ ~Ends /\ Item.type = "POINTER" /\ left = 0
    /\ left' = Len(Fields(Item))
    /\ UNCHANGED <<name, message, phase, fm, put, at, last, got>>

\* The head of a loop over a list.
ReadList ==
    /\ phase = "read" /\ ~Ends /\ Item.type = "ITER" /\ left = 0
    /\ LET test == FrameMgrIsIterLoopEnd(fm)
       IN  /\ fm' = test.fm
           /\ at' = IF test.end THEN at + 1 ELSE at
           /\ left' = IF test.end THEN 0 ELSE Len(Fields(Item.item))
    /\ UNCHANGED <<name, message, phase, put, last, got>>

Finish ==
    /\ phase = "read" /\ Ends
    /\ phase' = "done"
    /\ UNCHANGED <<name, message, fm, put, at, left, last, got>>

Next == Prepare \/ Put \/ Send \/ ReadToken \/ SkipPadding \/ ReadField
        \/ EnterFrame \/ ReadList \/ Finish

Spec == Init /\ [][Next]_vars

-----------------------------------------------------------------------------
(* What is read is what was written, whatever the byte order, the paddings   *)
(* and the lengths of lists and strings: every token, in order, and nothing  *)
(* behind the end of a list (FrameMgr.c: _FrameMgrPutToken,                  *)
(* _FrameMgrGetToken, FrameMgrIsIterLoopEnd).                                *)
ReadsWhatWasWritten ==
    /\ IsPrefix(got, message.tokens)
    /\ phase = "done" /\ name # "connect" => got = message.tokens

(* Neither side passes the end of the buffer, whose size the writer has      *)
(* computed beforehand from the same frame (FrameMgr.c:                      *)
(* FrameMgrGetTotalSize).                                                    *)
StaysInBuffer == phase # "prepare" => fm.idx <= Len(fm.area)

(* The header gives the length of a message in units of four bytes           *)
(* (i18nUtil.c: p_len = length/4): no frame of a message leaves a rest,      *)
(* whatever is in it, or its end would be cut off.                           *)
WholeUnits ==
    phase # "prepare" /\ name \notin DOMAIN Parts => Len(fm.area) % 4 = 0

(* A frame fills the buffer that is made for it, and no more.                *)
FrameFits == StaysInBuffer /\ WholeUnits
=============================================================================
