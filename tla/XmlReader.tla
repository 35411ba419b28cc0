------------------------------- MODULE XmlReader -------------------------------
(***************************************************************************)
(* The reader of XML manifests (crates/gunda-stream/src/xml.rs): the lexical *)
(* items of a document become the tree of its elements, or an error. A name  *)
(* is a prefix and a local name, and a text is a sequence of its characters, *)
(* of which only those a reference is made of are told apart: a character    *)
(* sequence between them, like the name of an entity, is one.               *)
(***************************************************************************)
EXTENDS Integers, SequencesExt, Optional

CONSTANTS MaxDepth, MaxNodes

LocalName(name) == Last(name)
Blank(text) == ToSet(text) \subseteq {" "}

---------------------------------------------------------------------------
(* References. *)

Entities == [amp |-> "&", lt |-> "<", gt |-> ">", quot |-> "\"", apos |-> "'"]
(* Character references, with what they are; one that is no character stays  *)
(* as it is, and one that is no number is an error.                         *)
References == [n38 |-> Some("&"), n120 |-> Some("x"), nD800 |-> None]
BadReferences == {"nZZ"}
IsReference(entity) ==
    entity # <<>> /\ entity[1] \in DOMAIN References \cup BadReferences

Replacement(entity) ==
    CASE Len(entity) = 1 /\ entity[1] \in DOMAIN Entities -> Good(Some(Entities[entity[1]]))
      [] Len(entity) = 1 /\ entity[1] \in DOMAIN References -> Good(References[entity[1]])
      [] IsReference(entity) /\ (Len(entity) > 1 \/ entity[1] \in BadReferences) -> Error
      [] OTHER -> Good(None)

FirstAt(text, c) ==
    LET found == {i \in DOMAIN text : text[i] = c}
    IN  IF found = {} THEN None ELSE Some(CHOOSE i \in found : \A j \in found : i <= j)

Prefixed(prefix, result) == IF result.ok THEN Good(prefix \o result.value) ELSE result

RECURSIVE DecodeEntities(_)
DecodeEntities(text) ==
    IF FirstAt(text, "&") = None THEN Good(text)
    ELSE LET start == The(FirstAt(text, "&"))
             before == SubSeq(text, 1, start - 1)
             after == SubSeq(text, start + 1, Len(text))
             end == FirstAt(after, ";")
         IN  IF end = None THEN Prefixed(Append(before, "&"), DecodeEntities(after))
             ELSE LET entity == SubSeq(after, 1, The(end) - 1)
                      replacement == Replacement(entity)
                      kept == IF replacement.value = None
                              THEN <<"&">> \o entity \o <<";">>
                              ELSE <<The(replacement.value)>>
                  IN  IF ~replacement.ok THEN Error
                      ELSE Prefixed(before \o kept, DecodeEntities(SubSeq(after, The(end) + 1, Len(after))))

---------------------------------------------------------------------------
(* The tree. *)

Node(name, attributes) == [name |-> name, attributes |-> attributes, children |-> <<>>, text |-> <<>>]

Reading == [ok |-> TRUE, stack |-> <<>>, root |-> None, count |-> 0]
Malformed(reader) == [reader EXCEPT !.ok = FALSE]

Attach(reader, node) ==
    LET depth == Len(reader.stack)
    IN  CASE depth > 0 -> [reader EXCEPT !.stack[depth].children = Append(@, node)]
          [] depth = 0 /\ reader.root = None -> [reader EXCEPT !.root = Some(node)]
          [] OTHER -> Malformed(reader)

PushText(reader, text) ==
    LET depth == Len(reader.stack)
        decoded == DecodeEntities(text)
    IN  CASE Blank(text) -> reader
          [] ~Blank(text) /\ depth > 0 /\ decoded.ok ->
                [reader EXCEPT !.stack[depth].text = @ \o decoded.value]
          [] OTHER -> Malformed(reader)

(* The attributes of a tag: none twice, whatever its prefix.                 *)
ParsedAttributes(attributes) ==
    LET values == [i \in DOMAIN attributes |-> DecodeEntities(attributes[i].value)]
    IN  IF \E i, j \in DOMAIN attributes :
              ~values[i].ok \/ (i # j /\ LocalName(attributes[i].key) = LocalName(attributes[j].key))
        THEN Error
        ELSE Good([i \in DOMAIN attributes |->
                      [key |-> LocalName(attributes[i].key), value |-> values[i].value]])

StartTag(reader, item) ==
    LET attributes == ParsedAttributes(item.attributes)
        node == Node(LocalName(item.name), attributes.value)
        counted == [reader EXCEPT !.count = @ + 1]
    IN  CASE ~attributes.ok \/ reader.count = MaxNodes -> Malformed(reader)
          [] attributes.ok /\ reader.count < MaxNodes /\ item.closed -> Attach(counted, node)
          [] attributes.ok /\ reader.count < MaxNodes /\ ~item.closed /\ Len(reader.stack) < MaxDepth ->
                [counted EXCEPT !.stack = Append(@, node)]
          [] OTHER -> Malformed(reader)

\* A mutant: an end tag ends whatever element is open.
EndTag_AnyName(reader, item) ==
    IF reader.stack = <<>> THEN Malformed(reader)
    ELSE Attach([reader EXCEPT !.stack = Front(@)], Last(reader.stack))

EndTag(reader, item) ==
    IF reader.stack = <<>> \/ Last(reader.stack).name # LocalName(item.name) THEN Malformed(reader)
    ELSE Attach([reader EXCEPT !.stack = Front(@)], Last(reader.stack))

(* Comments, processing instructions and declarations say nothing; the text  *)
(* of a CDATA section is read as any other.                                  *)
ReadItem(reader, item) ==
    CASE ~reader.ok \/ item.kind = "skipped" -> reader
      [] reader.ok /\ item.kind \in {"text", "cdata"} -> PushText(reader, item.text)
      [] reader.ok /\ item.kind = "start" -> StartTag(reader, item)
      [] reader.ok /\ item.kind = "end" -> EndTag(reader, item)

ParseDocument(items) ==
    LET reader == FoldLeft(ReadItem, Reading, items)
    IN  IF reader.ok /\ reader.stack = <<>> /\ reader.root # None
        THEN Good(The(reader.root)) ELSE Error
================================================================================
