------------------------------ MODULE XmlWriter -----------------------------
(***************************************************************************)
(* The XML files of src/src/gen-xml.cpp as src/src/xmlParser.cpp renders   *)
(* them.  createXMLString walks the tree twice: once for the size of the   *)
(* buffer, once to fill it.                                                *)
(*                                                                         *)
(* A text is a sequence of symbols; a name is one symbol, a character of   *)
(* more octets is "ml", and an entity is one symbol of its own width.      *)
(***************************************************************************)
EXTENDS Integers, Sequences, SequencesExt, TLC

\* XMLEntities.
EntityOf == "&" :> "&amp;" @@ "<" :> "&lt;" @@ ">" :> "&gt;" @@ "quote" :> "&quot;" @@ "apos" :> "&apos;"

\* The octets of a symbol.
Width(symbol) ==
    CASE symbol \in {"&lt;", "&gt;"} -> 4
      [] symbol = "&amp;" -> 5
      [] symbol \in {"&quot;", "&apos;"} -> 6
      [] symbol = "ml" -> 2
      [] OTHER -> 1

WidthOf(text) == FoldLeft(LAMBDA n, symbol : n + Width(symbol), 0, text)

\* Bug: a quote is left as it is.
ToXmlQuotes(text) ==
    [i \in DOMAIN text |-> IF text[i] \in DOMAIN EntityOf \ {"quote"} THEN EntityOf[text[i]] ELSE text[i]]

\* toXMLUnSafe.
ToXml(text) == [i \in DOMAIN text |-> IF text[i] \in DOMAIN EntityOf THEN EntityOf[text[i]] ELSE text[i]]

\* lengthXMLString.
LengthXml(text) ==
    FoldLeft(LAMBDA n, symbol : n + IF symbol \in DOMAIN EntityOf THEN Width(EntityOf[symbol])
                                    ELSE Width(symbol), 0, text)

-----------------------------------------------------------------------------
(* The trees of gen-xml.cpp; of the attributes, those that hold text from  *)
(* outside, one that stands for the others, and the ones that may lack.    *)

Attribute(name, value) == [name |-> name, value |-> value]
TextOf(text) == [type |-> "text", text |-> text]
ChildOf(node) == [type |-> "child", node |-> node]
Element(name, attributes, contents) ==
    [name |-> name, declaration |-> FALSE, attributes |-> attributes, contents |-> contents]
Optional(name, value) == IF value = <<>> THEN <<>> ELSE <<Attribute(name, value)>>
Raw(debugFlag, raw) == IF debugFlag THEN <<Attribute("raw", raw)>> ELSE <<>>

GenXmlPart(part, debugFlag) ==
    Element("Part", <<Attribute("From", part.from), Attribute("time", <<"0">>)>>
                    \o Raw(debugFlag, <<"0">>), <<TextOf(part.text)>>)

GenXmlSms(sms, includeParts, debugFlag) ==
    Element("Sms", <<Attribute("From", sms.from), Attribute("time", <<"0">>)>>
                   \o Optional("IMSI", sms.imsi),
            <<TextOf(sms.text)>>
            \o IF includeParts
               THEN [i \in DOMAIN sms.parts |-> ChildOf(GenXmlPart(sms.parts[i], debugFlag))] ELSE <<>>)

GenXmlUssd(ussd, debugFlag) ==
    Element("Ussd", <<Attribute("mode", <<"0">>)>> \o Optional("Request", ussd.request)
                    \o Optional("IMSI", ussd.imsi) \o Raw(debugFlag, ussd.raw), <<TextOf(ussd.text)>>)

-----------------------------------------------------------------------------
(* CreateXMLStringR: -1 is no formatting, -2 the single text of an element,*)
(* and otherwise the depth.                                                *)

Format(node, nFormat) ==
    IF nFormat >= 0 /\ Len(node.contents) = 1 /\ node.contents[1].type = "text" THEN -2 ELSE nFormat
ChildFormat(format) == IF format # -1 THEN format + 1 ELSE -1
Indent(n) == [i \in 1..n |-> "tab"]
Newline(yes) == IF yes THEN <<"nl">> ELSE <<>>

\* The first walk.
RECURSIVE SizeR(_, _)
SizeR(node, nFormat) ==
    LET format == Format(node, nFormat)
        filled == node.contents # <<>>
        Open == 3 + IF nFormat < 0 THEN 0 ELSE nFormat
        OfAttribute(n, a) == n + 1 + LengthXml(a.value) + 3 + 1
        End == IF ~filled THEN -1 ELSE IF format >= 0 THEN 1 ELSE 0
        OfContent(n, c) ==
            n + IF c.type = "child" THEN SizeR(c.node, ChildFormat(format))
                ELSE IF LengthXml(c.text) = 0 THEN 0
                ELSE LengthXml(c.text) + IF format >= 0 THEN format + 2 ELSE 0
        Close == CASE filled /\ format >= 0 -> 5 + format
                   [] filled /\ format = -1 -> 4
                   [] filled /\ format = -2 -> 5
                   [] ~filled -> IF format = -1 THEN 2 ELSE 3
    IN  Open + FoldLeft(OfAttribute, 0, node.attributes) + End
        + FoldLeft(OfContent, 0, node.contents) + Close

\* The second walk: what comes behind the attributes overwrites the blank there.
RECURSIVE WriteR(_, _)
WriteR(node, nFormat) ==
    LET format == Format(node, nFormat)
        filled == node.contents # <<>>
        Open == Indent(IF nFormat < 0 THEN 0 ELSE nFormat) \o <<"<", node.name, " ">>
        OfAttribute(s, a) == s \o <<a.name, "=", "quote">> \o ToXml(a.value) \o <<"quote", " ">>
        Tag == Front(FoldLeft(OfAttribute, Open, node.attributes))
        OfContent(s, c) ==
            s \o IF c.type = "child" THEN WriteR(c.node, ChildFormat(format))
                 ELSE IF c.text = <<>> THEN <<>>
                 ELSE IF format >= 0 THEN Indent(format + 1) \o ToXml(c.text) \o <<"nl">>
                 ELSE ToXml(c.text)
    IN  IF ~filled THEN Tag \o <<"/", ">">> \o Newline(format # -1)
        ELSE FoldLeft(OfContent, Tag \o <<">">> \o Newline(format >= 0), node.contents)
             \o (IF format >= 0 THEN Indent(format) ELSE <<>>) \o <<"<", "/", node.name, ">">>
             \o Newline(format # -1)

\* writeToFile with nFormat 1, which createXMLString takes for depth 0.
WriteToFile(node) ==
    <<"bom", "<", "?", "xml", " ", "version", "=", "quote", "1.0", "quote", " ", "encoding", "=",
      "quote", "utf-8", "quote", "?", ">", "nl">> \o WriteR(node, 0)
=============================================================================
