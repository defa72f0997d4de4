----------------------------- MODULE XimFrames -----------------------------
(* The layouts of the XIM messages (IMdkit/i18nIMProto.c).  A frame is a    *)
(* sequence of items; an item that repeats or points to another frame       *)
(* carries it.  Offsets of counters are in items, as in the source, where   *)
(* the list always follows its counter before any other repeated item.      *)
EXTENDS Naturals, Sequences

(* The items (FrameMgr.h: XimFrameType and its macros). *)
BIT8  == [type |-> "BIT", size |-> 1]
BIT16 == [type |-> "BIT", size |-> 2]
BIT32 == [type |-> "BIT", size |-> 4]
BARRAY == [type |-> "BARRAY"]
ITER(item)   == [type |-> "ITER", item |-> item]
PTR(frame)   == [type |-> "POINTER", frame |-> frame]
PAD(number, unit) == [type |-> "PADDING", number |-> number, unit |-> unit]
PAD4(number) == PAD(number, 4)
BYTE_COUNTER(offset) == [type |-> "COUNTER", size |-> 2, offset |-> offset]

(* Frames that are parts of others. *)
ximattr_fr       == << BIT16, BIT16, BIT16, BARRAY, PAD4(2) >>
xicattr_fr       == << BIT16, BIT16, BIT16, BARRAY, PAD4(2) >>
ximattribute_fr  == << BIT16, BIT16, BARRAY, PAD4(1) >>
xicattribute_fr  == << BIT16, BIT16, BARRAY, PAD4(1) >>
encodinginfo_fr  == << BIT16, BARRAY, PAD4(2) >>
str_fr           == << BIT8, BARRAY >>
xpcs_fr          == << BIT16, BARRAY, PAD4(2) >>
ext_fr           == << BIT8, BIT8, BIT16, BARRAY, PAD4(1) >>

(* Values of attributes. *)
attr_head_fr     == << BIT16, BIT16 >>
short_fr         == << BIT16 >>
long_fr          == << BIT32 >>
xrectangle_fr    == << BIT16, BIT16, BIT16, BIT16 >>
xpoint_fr        == << BIT16, BIT16 >>
fontset_fr       == << BIT16, BARRAY, PAD4(2) >>

(* Connection. *)
packet_header_fr == << BIT8, BIT8, BIT16 >>
connect_fr       == << BIT8, PAD(1, 2), BIT16, BIT16, BYTE_COUNTER(1), ITER(PTR(xpcs_fr)) >>
connect_reply_fr == << BIT16, BIT16 >>
open_fr          == << PTR(str_fr), PAD4(1) >>
open_reply_fr    == << BIT16, BYTE_COUNTER(1), ITER(PTR(ximattr_fr)),
                       BYTE_COUNTER(2), PAD4(1), ITER(PTR(xicattr_fr)) >>
close_fr         == << BIT16, PAD4(1) >>
close_reply_fr   == << BIT16, PAD4(1) >>
set_event_mask_fr == << BIT16, BIT16, BIT32, BIT32 >>
encoding_negotiation_fr ==
    << BIT16, BYTE_COUNTER(1), ITER(PTR(str_fr)), PAD4(1),
       BYTE_COUNTER(2), PAD4(1), ITER(PTR(encodinginfo_fr)) >>
encoding_negotiation_reply_fr == << BIT16, BIT16, BIT16, PAD4(1) >>
query_extension_fr == << BIT16, BYTE_COUNTER(1), ITER(PTR(str_fr)), PAD4(1) >>
query_extension_reply_fr == << BIT16, BYTE_COUNTER(1), ITER(PTR(ext_fr)) >>
get_im_values_fr == << BIT16, BYTE_COUNTER(1), ITER(BIT16), PAD4(1) >>
get_im_values_reply_fr == << BIT16, BYTE_COUNTER(1), ITER(PTR(ximattribute_fr)) >>

(* Contexts. *)
create_ic_fr        == << BIT16, BYTE_COUNTER(1), ITER(PTR(xicattribute_fr)) >>
create_ic_reply_fr  == << BIT16, BIT16 >>
destroy_ic_fr       == << BIT16, BIT16 >>
destroy_ic_reply_fr == << BIT16, BIT16 >>
set_ic_values_fr    == << BIT16, BIT16, BYTE_COUNTER(2), PAD4(1),
                          ITER(PTR(xicattribute_fr)) >>
set_ic_values_reply_fr == << BIT16, BIT16 >>
get_ic_values_fr    == << BIT16, BIT16, BYTE_COUNTER(1), ITER(BIT16), PAD4(2) >>
get_ic_values_reply_fr == << BIT16, BIT16, BYTE_COUNTER(2), PAD4(1),
                             ITER(PTR(xicattribute_fr)) >>
set_ic_focus_fr     == << BIT16, BIT16 >>
unset_ic_focus_fr   == << BIT16, BIT16 >>
reset_ic_fr         == << BIT16, BIT16 >>
reset_ic_reply_fr   == << BIT16, BIT16, BIT16, BARRAY, PAD4(2) >>

(* Keys. *)
forward_event_fr == << BIT16, BIT16, BIT16, BIT16 >>
wire_keyevent_fr == << BIT8, BIT8, BIT16, BIT32, BIT32, BIT32, BIT32,
                       BIT16, BIT16, BIT16, BIT16, BIT16, BIT8 >>
sync_reply_fr    == << BIT16, BIT16 >>
commit_chars_fr  == << BIT16, BIT16, BIT16, BIT16, BARRAY, PAD4(1) >>
commit_both_fr   == << BIT16, BIT16, BIT16, PAD4(1), BIT32, BIT16, BARRAY, PAD4(2) >>
ext_forward_keyevent_fr == << BIT16, BIT16, BIT16, BIT16, BIT8, BIT8, BIT16,
                              BIT32, BIT32 >>
ext_move_fr      == << BIT16, BIT16, BIT16, BIT16 >>

(* Callbacks. *)
geometry_fr      == << BIT16, BIT16 >>
str_conversion_fr == << BIT16, BIT16, BIT32, BIT32, BIT32, BIT16, BIT16 >>
preedit_start_fr == << BIT16, BIT16 >>
preedit_start_reply_fr == << BIT16, BIT16, BIT32 >>
preedit_draw_fr  == << BIT16, BIT16, BIT32, BIT32, BIT32, BIT32, BIT16, BARRAY,
                       PAD4(2), BYTE_COUNTER(2), PAD4(1), ITER(BIT32) >>
preedit_caret_fr == << BIT16, BIT16, BIT32, BIT32, BIT32 >>
preedit_caret_reply_fr == << BIT16, BIT16, BIT32 >>
preedit_done_fr  == << BIT16, BIT16 >>
status_start_fr  == << BIT16, BIT16 >>
status_draw_text_fr == << BIT16, BIT16, BIT32, BIT32, BIT16, BARRAY, PAD4(2),
                          BYTE_COUNTER(2), PAD4(1), ITER(BIT32) >>
status_draw_bitmap_fr == << BIT16, BIT16, BIT32, BIT32 >>
status_done_fr   == << BIT16, BIT16 >>
=============================================================================
