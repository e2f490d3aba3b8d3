-------------------------------- MODULE Records --------------------------------
(***************************************************************************)
(* One event on its way into the record and out of it: clipped so that its *)
(* line can be read back (internal/recorder/recorder.go), redacted member  *)
(* by member when its session is erased (internal/recorder/erase.go).      *)
(***************************************************************************)
EXTENDS Integers, Sequences, FiniteSets, SequencesExt, FiniteSetsExt

CONSTANTS
    LineBudget,        \* MaxLine less the digest and clipMargin
    clipNoteBytes,     \* what a clip is taken to cost
    NoteBytes,         \* what the note in place of the content really costs
    maxClipAttempts,
    Framing            \* a line's bytes around its fields

ASSUME NotesFit == NoteBytes <= clipNoteBytes

--------------------------------------------------------------------------------
(* Clipping                                                                     *)

\* A field is a string, a list of strings (of so many elements, three bytes each), or a
\* list of records that a clip sums up: its content, and the bytes each of them becomes
\* when it is marshalled.  rune is the width of its characters.  note is 0, or the
\* size the note in it states.
PerElement == 3
BytesOf(f) == f.content + PerElement * f.elements
Marshalled(f) ==
    IF f.note = 0 THEN f.escape * f.content + PerElement * f.elements
    ELSE f.escape * f.content + NoteBytes
Sum(s) == FoldLeft(LAMBDA a, b : a + b, 0, s)
LineOf(event) == Framing + Sum([i \in DOMAIN event |-> Marshalled(event[i])])

\* capForBudget: the level that fills the budget, from the smallest size up.
capForBudget(sizes, budget) ==
    LET asc == SortSeq(sizes, <)
        Used(i) == Sum(SubSeq(asc, 1, i - 1))
        Level(i) == IF budget < Used(i) THEN 0 ELSE (budget - Used(i)) \div (Len(asc) - i + 1)
        over == {i \in DOMAIN asc : Level(i) < asc[i]}
    IN  IF over = {} THEN budget ELSE Level(Min(over))

\* clipUTF8: back to a character's first byte.
clipUTF8(len, keep, rune) == LET n == IF len < keep THEN len ELSE keep IN n - (n % rune)

\* clipStrings joins the elements with spaces; a list of records keeps nothing.
reduce(f, keep) ==
    [f EXCEPT !.content = CASE f.kind = "string" -> clipUTF8(f.content, keep, f.rune)
                            [] f.kind = "strings" -> clipUTF8(f.content + f.elements - 1, keep, f.rune)
                            [] f.kind = "records" -> 0,
              !.elements = 0, !.note = BytesOf(f)]

\* clipToBudget: every field above the level comes down to it, and a note is never longer
\* than what it stands for.
clipToBudget(event, budget) ==
    LET room == IF budget > Len(event) * clipNoteBytes THEN budget - Len(event) * clipNoteBytes ELSE 0
        sizes == [i \in DOMAIN event |-> BytesOf(event[i])]
        keep == capForBudget(sizes, room)
    IN  IF Sum(sizes) <= room THEN event
        ELSE [i \in DOMAIN event |->
                 IF sizes[i] > keep + clipNoteBytes THEN reduce(event[i], keep) ELSE event[i]]

\* Mutant: what was clipped is clipped again.
ClippedAgain(snapshot, event, budget) == clipToBudget(event, budget)

\* Every pass clips the event as it was handed over.
Clipped(snapshot, event, budget) == clipToBudget(snapshot, budget)

RECURSIVE Passes(_, _, _, _)
Passes(snapshot, event, budget, attempt) ==
    LET excess == LineOf(event) - LineBudget
        next == IF budget - excess < budget \div 2 THEN budget \div 2 ELSE budget - excess
        again == Clipped(snapshot, event, next)
    IN  CASE excess <= 0 -> [ok |-> TRUE, event |-> event]
          [] excess > 0 /\ attempt >= maxClipAttempts -> [ok |-> FALSE, event |-> event]
          [] OTHER -> IF again = snapshot THEN [ok |-> FALSE, event |-> event]
                      ELSE Passes(snapshot, again, next, attempt + 1)

\* fitUnderMaxLine: clip first, then measure, then clip harder.
fitUnderMaxLine(event) == Passes(event, clipToBudget(event, LineBudget), LineBudget, 0)

\* What is written fits, a field it leaves alone is as it was, and one it clips says how
\* long that was and is no longer than it; what is as short as its own note is kept.
\* An event without escapes is never refused.
FitHeld(event) ==
    LET r == fitUnderMaxLine(event)
    IN  /\ r.ok => /\ LineOf(r.event) <= LineBudget
                   /\ \A i \in DOMAIN event :
                          /\ r.event[i].note = 0 => r.event[i] = event[i]
                          /\ r.event[i].note # 0 =>
                                 /\ r.event[i].note = BytesOf(event[i])
                                 /\ r.event[i].content % event[i].rune = 0
                                 /\ r.event[i].content + NoteBytes <= BytesOf(event[i])
                          /\ BytesOf(event[i]) <= clipNoteBytes => r.event[i] = event[i]
        /\ (\A i \in DOMAIN event : event[i].escape = 1) => r.ok

\* The level is the highest one that fits.
LevelHeld(sizes, budget) ==
    LET level == capForBudget(sizes, budget)
        Total(l) == Sum([i \in DOMAIN sizes |-> IF sizes[i] < l THEN sizes[i] ELSE l])
    IN  /\ Total(level) <= budget
        /\ Sum(sizes) > budget => Total(level + 1) > budget

\* What fitUnderMaxLine's comment says: "A line is at most six times its content plus a
\* fixed framing, so three halvings put the excess back under half the budget whatever
\* the input.  Four passes, worst case, out of eight."  An event whose content is under
\* the lowered budget already, and whose line is not, is refused at once.
AlwaysFits(event) == fitUnderMaxLine(event).ok

--------------------------------------------------------------------------------
(* Redaction                                                                    *)

\* A line is the sequence of its members, [key, exact, value]: a key is the name of a
\* field, spelt as the schema has it or in another case, or a name nobody knows.  A text
\* is "", Erased (a placeholder), or content.
Erased == "erased"
Text(v) == [is |-> "text", text |-> v]
List(v) == [is |-> "list", list |-> v]
Object(v) == [is |-> "object", object |-> v]
Objects(v) == [is |-> "objects", objects |-> v]
Null == [is |-> "null"]

\* The shapes Event has, and the fields of each that an erasure leaves alone.
Schema ==
    [event |-> {"type", "data", "cmd", "edges", "error", "agents", "store_keys"},
     error |-> {"kind", "message"},
     agents |-> {"name"},
     store_keys |-> {"name", "read"}]
eraseExempt == {<<"event", "type">>, <<"event", "edges">>, <<"error", "kind">>, <<"agents", "name">>,
                <<"store_keys", "read">>}

\* parseObject refuses a member that appears twice.
parseObject(members) ==
    \A i, j \in DOMAIN members :
        i # j => <<members[i].key, members[i].exact>> # <<members[j].key, members[j].exact>>

Nested(v) == CASE v.is = "object" -> {v.object} [] v.is = "objects" -> Range(v.objects) [] OTHER -> {}

\* Mutant: only the event's own members are looked at.
checkMemberNamesFlat(members, shape) ==
    \A i \in DOMAIN members : members[i].exact \/ members[i].key \notin Schema[shape]

\* checkMemberNames: no member of a field's name in another case, at any depth; a nested
\* object that does not parse is passed over.
RECURSIVE checkMemberNames(_, _)
checkMemberNames(members, shape) ==
    /\ \A i \in DOMAIN members : members[i].exact \/ members[i].key \notin Schema[shape]
    /\ \A i \in DOMAIN members :
           members[i].exact /\ members[i].key \in Schema[shape] =>
               \A o \in Nested(members[i].value) : parseObject(o) => checkMemberNames(o, members[i].key)

\* encoding/json: the last member that matches a field, in any case.
Decoded(members, field) ==
    LET m == SelectLastInSeq(members, LAMBDA x : x.key = field)
    IN  IF m = 0 THEN Null ELSE members[m].value

redactString(s) == IF s \in {"", Erased} THEN s ELSE Erased
redactStrings(s) == IF s = <<>> \/ s = <<Erased>> THEN s ELSE <<Erased>>

\* rawObject.set: under the schema's name, in its place or at the end.
Set(members, field, value) ==
    LET m == SelectInSeq(members, LAMBDA x : x.key = field /\ x.exact)
    IN  IF m # 0 THEN [members EXCEPT ![m].value = value]
        ELSE Append(members, [key |-> field, exact |-> TRUE, value |-> value])

\* redactEventFields and redactStructSlice, for one field of a shape; applyRedaction for
\* the members of an object: what changed is set, what did not is left.
RECURSIVE Redact(_, _, _), applyRedaction(_, _)
Redact(value, shape, field) ==
    IF <<shape, field>> \in eraseExempt THEN value
    ELSE CASE value.is = "text" -> Text(redactString(value.text))
           [] value.is = "list" -> List(redactStrings(value.list))
           [] value.is = "object" -> Object(applyRedaction(value.object, field))
           [] value.is = "objects" ->
                  Objects([i \in DOMAIN value.objects |-> applyRedaction(value.objects[i], field)])
           [] value.is = "null" -> Null
applyRedaction(members, shape) ==
    LET After(f) == Redact(Decoded(members, f), shape, f)
    IN  FoldSet(LAMBDA f, line : Set(line, f, After(f)), members,
                {f \in Schema[shape] : After(f) # Decoded(members, f)})

Changed(members, field) ==
    Redact(Decoded(members, field), "event", field) # Decoded(members, field)

\* The members of a nested value can be written back only if each object parses.
Expressible(value) == \A o \in Nested(value) : parseObject(o)

\* Erase, for one line.
EraseLine(members) ==
    LET changed == {f \in Schema["event"] : Changed(members, f)}
    IN  IF /\ parseObject(members) /\ checkMemberNames(members, "event")
           /\ \A f \in changed : Expressible(Decoded(members, f))
        THEN [ok |-> TRUE, line |-> applyRedaction(members, "event"), touched |-> changed # {}]
        ELSE [ok |-> FALSE, line |-> members, touched |-> FALSE]

\* What a reader of the file can find in a member of a field that is redacted.
RECURSIVE Leftovers(_, _)
Leftovers(members, shape) ==
    UNION {LET m == members[i]
           IN  CASE m.key \notin Schema[shape] \/ <<shape, m.key>> \in eraseExempt -> {}
                 [] OTHER -> CASE m.value.is = "text" -> {m.value.text} \ {"", Erased}
                               [] m.value.is = "list" -> Range(m.value.list) \ {"", Erased}
                               [] m.value.is = "null" -> {}
                               [] OTHER -> UNION {Leftovers(o, m.key) : o \in Nested(m.value)} :
           i \in DOMAIN members}

Parses(members) == \A i \in DOMAIN members : Expressible(members[i].value)

\* An erasure that is reported left no content of a field it redacts, kept every other
\* member as and where it was, and has nothing to do the second time.
ErasureHeld(members) ==
    LET r == EraseLine(members)
    IN  r.ok /\ Parses(members) =>
            /\ Leftovers(r.line, "event") = {}
            /\ Len(r.line) = Len(members)
            /\ \A i \in DOMAIN members :
                   /\ r.line[i].key = members[i].key
                   /\ members[i].key \notin Schema["event"] \/ <<"event", members[i].key>> \in eraseExempt
                          => r.line[i] = members[i]
            /\ r.touched <=> r.line # members
            /\ EraseLine(r.line).ok /\ ~EraseLine(r.line).touched

\* What checkMemberNames says it is for: "refusing rather than reporting an erasure that
\* left content in the file".  A nested object with a member twice is passed over by the
\* check, and its first value stays where its last one is empty.
NothingLeft(members) == EraseLine(members).ok => Leftovers(EraseLine(members).line, "event") = {}
====
