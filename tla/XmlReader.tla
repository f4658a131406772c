------------------------------ MODULE XmlReader -----------------------------
(***************************************************************************)
(* The reader of src/src/xmlParser.cpp: GetNextToken and ParseXMLElement,  *)
(* whose recursion is a stack of open elements here, and parseString.  It  *)
(* is built without STRICT_PARSING and APPROXIMATE_PARSING.  Comments and  *)
(* other clear tags, which gen-xml.cpp never writes, are left out.         *)
(***************************************************************************)
EXTENDS XmlWriter

Space == {" ", "nl", "tab"}

\* The first of the places from p on, or the one behind the end.
First(s, p, places) ==
    CHOOSE q \in p..(Len(s) + 1) :
        /\ q = Len(s) + 1 \/ q \in places
        /\ \A k \in p..(q - 1) : k \notin places

Places(s, symbols) == {k \in DOMAIN s : s[k] \in symbols}
Follows(s, p, symbol) == p + 1 <= Len(s) /\ s[p + 1] = symbol

\* GetNextToken: the type, the symbols, where it begins and where to go on.
Token(type, s, from, upto, next) ==
    [type |-> type, symbols |-> SubSeq(s, from, upto), from |-> from, next |-> next]

TextUpto(s, a, e) ==
    Token("text", s, a, e - 1, IF e <= Len(s) /\ s[e] \in Space THEN e + 1 ELSE e)

TextToken(s, a) ==
    LET ends == Places(s, Space \cup {"<", ">", "="}) \cup
                {k \in Places(s, {"/"}) : Follows(s, k, ">")}
    IN  TextUpto(s, a, First(s, a + 1, ends))

\* A quote that is not closed before the next "<" is text.
QuotedUpto(s, a, e) ==
    IF e <= Len(s) /\ s[e] = s[a] THEN Token("quoted", s, a + 1, e - 1, e + 1) ELSE TextToken(s, a)

TokenAt(s, a) ==
    IF a > Len(s) THEN Token("none", s, a, a - 1, a)
    ELSE CASE s[a] \in {"quote", "apos"} ->
                QuotedUpto(s, a, First(s, a + 1, Places(s, {s[a], "<"})))
           [] s[a] = "=" -> Token("equals", s, a, a, a + 1)
           [] s[a] = ">" -> Token("close", s, a, a, a + 1)
           [] s[a] = "<" ->
                IF Follows(s, a, "/") THEN Token("tagEnd", s, a, a, a + 2)
                ELSE IF Follows(s, a, "?") THEN Token("declaration", s, a, a, a + 2)
                ELSE Token("tagStart", s, a, a, a + 1)
           [] s[a] = "/" /\ Follows(s, a, ">") -> Token("short", s, a, a, a + 2)
           [] OTHER -> TextToken(s, a)

GetNextToken(s, p) == TokenAt(s, First(s, p, DOMAIN s \ Places(s, Space)))

-----------------------------------------------------------------------------
(* The parser's state.                                                     *)

None == "eXMLErrorNone"

Begin(s) ==
    [stack |-> <<[name |-> "", declaration |-> FALSE, attributes |-> <<>>, contents |-> <<>>]>>,
     status |-> "outside", attrib |-> "name", pending |-> <<>>,
     p |-> 1, text |-> 1, error |-> None, ended |-> FALSE]

Current(st) == Last(st.stack)
Fail(st, error) == [st EXCEPT !.error = error, !.ended = TRUE]
AddAttribute(st, name, value) ==
    [st EXCEPT !.stack[Len(st.stack)].attributes = Append(@, Attribute(name[1], value))]

\* An element is complete: it is its parent's last content.
PopOne(stack) ==
    LET n == Len(stack)
    IN  [SubSeq(stack, 1, n - 1) EXCEPT ![n - 1].contents = Append(@, ChildOf(stack[n]))]
Pop(st) == [st EXCEPT !.stack = PopOne(@), !.status = "outside", !.attrib = "name"]

\* fromXMLString: what is no entity behind an ampersand is an error.
FromXml(text) ==
    [i \in DOMAIN text |->
        IF \E c \in DOMAIN EntityOf : EntityOf[c] = text[i]
        THEN CHOOSE c \in DOMAIN EntityOf : EntityOf[c] = text[i] ELSE text[i]]
Readable(text) == \A i \in DOMAIN text : text[i] # "&"

\* maybeAddTxT: the text since the last tag without the white space around it.
Trim(text) ==
    LET seen == {i \in DOMAIN text : text[i] \notin Space}
    IN  IF seen = {} THEN <<>>
        ELSE SubSeq(text, CHOOSE i \in seen : \A k \in seen : i <= k,
                          CHOOSE i \in seen : \A k \in seen : i >= k)
AddText(st, text) ==
    IF text = <<>> THEN [st EXCEPT !.text = 0]
    ELSE IF ~Readable(text) THEN Fail(st, "eXMLErrorUnknownCharacterEntity")
    ELSE [st EXCEPT !.text = 0,
                    !.stack[Len(st.stack)].contents = Append(@, TextOf(FromXml(text)))]
MaybeAddText(st, s, upto) ==
    AddText(st, IF st.text = 0 THEN <<>> ELSE Trim(SubSeq(s, st.text, upto - 1)))

-----------------------------------------------------------------------------
(* ParseXMLElement.                                                        *)

\* "<name" or "<?name".
OpenNamed(st, t, name) ==
    IF st.ended THEN st
    ELSE IF name.type # "text" THEN Fail(st, "eXMLErrorMissingTagName")
    ELSE [st EXCEPT !.stack = Append(@, [name |-> name.symbols[1],
                                         declaration |-> t.type = "declaration",
                                         attributes |-> <<>>, contents |-> <<>>]),
                    !.status = "inside", !.attrib = "name", !.p = name.next]

OpenElement(st, s, t) == OpenNamed(MaybeAddText(st, s, t.from), t, GetNextToken(s, t.next))

\* An end tag that does not fit closes everything up to the element it fits.
CloseNamed(st, name) ==
    LET n == Len(st.stack)
        fitting == {i \in 2..(n - 1) : st.stack[i].name = name}
        i == CHOOSE k \in fitting : \A j \in fitting : k >= j
        Down[k \in 1..n] == IF k = n THEN st.stack ELSE PopOne(Down[k + 1])
    IN  IF n = 1 THEN Fail(st, "eXMLErrorMissingEndTag")
        ELSE IF Current(st).name = name THEN Pop(st)
        ELSE IF fitting = {} THEN Fail(st, "eXMLErrorUnmatchedEndTag")
        ELSE [st EXCEPT !.stack = Down[i - 1], !.error = "eXMLErrorMissingEndTag"]

\* "</name>".
EndTag(st, name, close) ==
    IF st.ended THEN st
    ELSE IF name.type # "text" \/ close.type # "close" THEN Fail(st, "eXMLErrorMissingEndTagName")
    ELSE CloseNamed([st EXCEPT !.text = close.next, !.p = close.next], name.symbols[1])

CloseElement(st, s, t) ==
    LET tag(name) == EndTag(MaybeAddText(st, s, t.from), name, GetNextToken(s, name.next))
    IN  tag(GetNextToken(s, t.next))

Outside(st, s, t) ==
    CASE t.type \in {"tagStart", "declaration"} -> OpenElement(st, s, t)
      [] t.type = "tagEnd" -> CloseElement(st, s, t)
      [] OTHER -> [st EXCEPT !.p = t.next]

\* An attribute's name, or the end of the tag.
AttribName(st, t) ==
    CASE t.type = "text" -> [st EXCEPT !.pending = t.symbols, !.attrib = "equals"]
      [] t.type = "close" -> [st EXCEPT !.status = "outside", !.text = t.next]
      [] t.type = "short" -> Pop([st EXCEPT !.text = t.next])
      [] OTHER -> Fail(st, "eXMLErrorUnexpectedToken")

\* Behind an attribute's name; the "?" that ends a declaration is no name.
AttribEquals(st, t) ==
    LET mark == Current(st).declaration /\ Last(st.pending) = "?"
        pending == IF mark THEN Front(st.pending) ELSE st.pending
        named == [IF pending = <<>> THEN st ELSE AddAttribute(st, pending, <<>>) EXCEPT !.text = t.next]
    IN  CASE t.type = "text" -> [AddAttribute(st, st.pending, <<>>) EXCEPT !.pending = t.symbols]
          [] t.type = "equals" -> [st EXCEPT !.attrib = "value"]
          [] t.type \in {"close", "short"} ->
                IF t.type = "short" \/ (mark /\ Len(st.stack) > 2) THEN Pop(named)
                ELSE [named EXCEPT !.status = "outside"]
          [] OTHER -> Fail(st, "eXMLErrorUnexpectedToken")

AttribValue(st, t) ==
    LET mark == t.type = "text" /\ Current(st).declaration /\ Last(t.symbols) = "?"
        value == IF mark THEN Front(t.symbols) ELSE t.symbols
    IN  IF t.type \notin {"text", "quoted"} THEN Fail(st, "eXMLErrorUnexpectedToken")
        ELSE IF ~Readable(value) THEN Fail(st, "eXMLErrorUnknownCharacterEntity")
        ELSE [AddAttribute(st, st.pending, FromXml(value)) EXCEPT !.attrib = "name"]

Inside(st, t) ==
    LET on == [st EXCEPT !.p = t.next]
    IN  CASE st.attrib = "name" -> AttribName(on, t)
          [] st.attrib = "equals" -> AttribEquals(on, t)
          [] st.attrib = "value" -> AttribValue(on, t)

\* The end of the input.
AtEnd(st, s) ==
    LET open == ~Current(st).declaration /\ Len(st.stack) > 1
        ended == [st EXCEPT !.error = IF open THEN "eXMLErrorMissingEndTag" ELSE @]
    IN  [MaybeAddText(ended, s, Len(s) + 1) EXCEPT !.ended = TRUE]

Step(st, s, t) ==
    CASE t.type = "none" -> AtEnd(st, s)
      [] t.type # "none" /\ st.status = "outside" -> Outside(st, s, t)
      [] t.type # "none" /\ st.status = "inside" -> Inside(st, t)

RECURSIVE ParseXMLElement(_, _)
ParseXMLElement(st, s) ==
    IF st.ended THEN st ELSE ParseXMLElement(Step(st, s, GetNextToken(s, st.p)), s)

\* The tree of all elements, those that are open closed.
Root(stack) ==
    LET Down[k \in 1..Len(stack)] == IF k = Len(stack) THEN stack ELSE PopOne(Down[k + 1])
    IN  Down[1][1]

ChildrenOf(node) == SelectSeq(node.contents, LAMBDA c : c.type = "child")

\* The element of that name, at the top or one below.
FindFirst(root, error, tag) ==
    LET only == Len(ChildrenOf(root)) = 1 /\ Len(root.contents) = 1 /\ root.attributes = <<>>
        found(top, below) ==
            IF top.name = tag THEN [error |-> error, node |-> top]
            ELSE IF below = <<>> THEN [error |-> "eXMLErrorFirstTagNotFound"]
            ELSE [error |-> error, node |-> below[1].node]
        from(top) == found(top, SelectSeq(ChildrenOf(top), LAMBDA c : c.node.name = tag))
    IN  from(IF only THEN root.contents[1].node ELSE root)

\* parseString, when the input is parsed to st.
ParsedAs(st, root, tag) ==
    IF ChildrenOf(root) = <<>> THEN FindFirst(root, "eXMLErrorNoXMLTagFound", tag)
    ELSE IF st.error \in {None, "eXMLErrorMissingEndTag"} THEN FindFirst(root, st.error, tag)
    ELSE [error |-> st.error]

ParseString(s, tag) ==
    LET parsed(st) == ParsedAs(st, Root(st.stack), tag)
    IN  parsed(ParseXMLElement(Begin(s), s))

\* parseFile skips the octets that writeToFile puts first.
ParseFile(s, tag) ==
    IF s = <<>> THEN [error |-> "eXMLErrorEmpty"]
    ELSE ParseString(IF s[1] = "bom" THEN Tail(s) ELSE s, tag)

-----------------------------------------------------------------------------
(* Properties.                                                             *)

\* A tree whose texts have no white space around them and are not empty.
RECURSIVE Trimmed(_)
Trimmed(node) ==
    LET kept == SelectSeq(node.contents, LAMBDA c : c.type = "child" \/ Trim(c.text) # <<>>)
    IN  [node EXCEPT !.contents =
            [i \in DOMAIN kept |->
                IF kept[i].type = "child" THEN ChildOf(Trimmed(kept[i].node))
                ELSE TextOf(Trim(kept[i].text))]]

\* The files of one text: an SMS as it is and with its parts, an USSD answer.
Documents(text) ==
    LET part == [from |-> text, text |-> text]
        sms(parts, imsi) == [from |-> text, text |-> text, imsi |-> imsi, parts |-> parts]
    IN  {GenXmlSms(sms(<<>>, <<>>), FALSE, FALSE), GenXmlSms(sms(<<part, part>>, <<"0">>), TRUE, TRUE),
         GenXmlUssd([request |-> text, imsi |-> <<"0">>, raw |-> text, text |-> text], TRUE)}

\* Whatever text an SMS or an answer carries, its file is read back as it was built:
\* every attribute exactly, every text but for the white space around it; and the
\* walk that counts the octets agrees with the one that writes them.
ReadsBack(text) ==
    \A d \in Documents(text) :
        /\ WidthOf(WriteR(d, 0)) = SizeR(d, 0) /\ WidthOf(WriteR(d, -1)) = SizeR(d, -1)
        /\ ParseFile(WriteToFile(d), d.name) = [error |-> None, node |-> Trimmed(d)]

\* A file of which only a first part has been written is never read as a whole one,
\* unless only its last line end is missing.
HalfIsNoticed(text) ==
    \A d \in Documents(text) :
        LET s == WriteToFile(d)
        IN  \A n \in 0..(Len(s) - 2) : ParseFile(SubSeq(s, 1, n), d.name).error # None
=============================================================================
