--------------------------- MODULE XimAttributes ----------------------------
(* The attributes of input contexts on their way through i18nIc.c: the      *)
(* tables of i18nAttr.c, the lists of requests taken apart into attributes  *)
(* of the context, of its preedit and of its status, and the list of a      *)
(* reply put together.  Their bytes are those of FrameMgr.                  *)
EXTENDS Integers, SequencesExt

\* Default_ICattr: the type of each attribute.
Default_ICattr ==
    [inputStyle |-> "CARD32", clientWindow |-> "Window", focusWindow |-> "Window",
     filterEvents |-> "CARD32", preeditAttributes |-> "NEST",
     statusAttributes |-> "NEST", fontSet |-> "XFontSet", area |-> "XRectangle",
     areaNeeded |-> "XRectangle", colorMap |-> "CARD32", stdColorMap |-> "CARD32",
     foreground |-> "CARD32", background |-> "CARD32", backgroundPixmap |-> "CARD32",
     spotLocation |-> "XPoint", lineSpace |-> "CARD32", preeditState |-> "CARD32",
     separatorofNestedList |-> "SeparatorOfNestedList"]

\* Default_Extension, and the styles of nimf_xim_start.
Default_Extension == {"XIM_EXT_MOVE", "XIM_EXT_SET_EVENT_MASK", "XIM_EXT_FORWARD_KEYEVENT"}
supported_styles == {"callbacks", "position", "nothing"}

\* An attribute of a request: a value, or the list of a nested one.
Attr(id, value) == [id |-> id, value |-> value, list |-> <<>>]
Nested(id, list) == [id |-> id, value |-> "", list |-> list]

IsNestedList(id) == id \in DOMAIN Default_ICattr /\ Default_ICattr[id] = "NEST"
IsSeparator(id) == id = "separatorofNestedList"

\* A value is taken over by its type, whatever its size; of an attribute the
\* table does not have, and of a separator, nothing is.
ReadValue(a) ==
    IF a.id \in DOMAIN Default_ICattr \ {"separatorofNestedList"} THEN <<a>> ELSE <<>>
ReadICValue(a) == IF IsNestedList(a.id)
                  THEN FlattenSeq([k \in DOMAIN a.list |-> ReadValue(a.list[k])])
                  ELSE ReadValue(a)

\* The three arrays that _Xi18nChangeIC hands to on_incoming_message.
ChangeIC(attrs) ==
    LET Of(Test(_)) == LET some == SelectSeq(attrs, Test)
                       IN  FlattenSeq([k \in DOMAIN some |-> ReadICValue(some[k])])
    IN  [preedit |-> Of(LAMBDA a : a.id = "preeditAttributes"),
         status |-> Of(LAMBDA a : a.id = "statusAttributes"),
         ic |-> Of(LAMBDA a : ~IsNestedList(a.id))]

-----------------------------------------------------------------------------
(* GET_IC_VALUES: a nested list is the ids between its own and a separator, *)
(* which itself is then taken for an attribute of the context.              *)

\* The nested list that the id at k is in, or "".
ListOf(ids, k) ==
    LET heads == {h \in 1 .. k - 1 :
                    IsNestedList(ids[h]) /\ \A m \in h + 1 .. k : ~IsSeparator(ids[m])}
    IN  IF heads = {} THEN "" ELSE ids[CHOOSE h \in heads : \A g \in heads : h <= g]

GetICValue(ids, list) ==
    LET own(k) == ListOf(ids, k) = list /\ ids[k] \in DOMAIN Default_ICattr
                  /\ ~(list = "" /\ IsNestedList(ids[k]))
    IN  FoldLeft(LAMBDA got, k : IF own(k) THEN Append(got, ids[k]) ELSE got,
                 <<>>, [k \in DOMAIN ids |-> k])

\* nimf_xim_get_ic_values answers two of them.  The preedit state is put as an
\* unsigned long under the type CARD32: where that has eight bytes, no branch
\* of GetCardAttribute copies it and zeros are sent, XIMPreeditUnKnown.
Answer(id) == CASE id = "filterEvents" -> Attr(id, "KeyPressMask | KeyReleaseMask")
                [] id = "preeditState" -> Attr(id, "XIMPreeditUnKnown")
                [] OTHER -> Attr(id, "")

CreateNestedList(id, list) == IF list = <<>> THEN <<>> ELSE <<Nested(id, list)>>

GetIC(ids) ==
    LET Answers(list) == LET of == GetICValue(ids, list)
                         IN  [k \in DOMAIN of |-> Answer(of[k])]
    IN  Answers("") \o CreateNestedList("preeditAttributes", Answers("preeditAttributes"))
                    \o CreateNestedList("statusAttributes", Answers("statusAttributes"))
=============================================================================
