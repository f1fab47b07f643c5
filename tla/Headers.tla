------------------------------- MODULE Headers ------------------------------
(***************************************************************************)
(* The header collection of a message and the registry of header classes   *)
(* (src/common/http_headers.cc).  A message that is parsed adds every      *)
(* header as raw text and, when its name is registered, as a typed header  *)
(* too; the two maps compare names without their case.                     *)
(***************************************************************************)
EXTENDS Integers, Sequences, FiniteSets
LOCAL INSTANCE SequencesExt

\* toLowercase, under LowercaseHash and LowercaseEqual.
Lower(name) == IF name = "HOST" THEN "host" ELSE IF name = "X-Id" THEN "x-id" ELSE name

Registered == {"host"}          \* Registry: the names with a class; registering one twice raises
IsRegistered(name) == Lower(name) \in Registered

Empty == [headers |-> <<>>, raw |-> <<>>]

\* std::unordered_map::insert keeps the element that is there.
Insert(m, name, value) == [n \in DOMAIN m \cup {Lower(name)} |-> IF n \in DOMAIN m THEN m[n] ELSE value]
Erase(m, name) == [n \in DOMAIN m \ {Lower(name)} |-> m[n]]
Holds(m, name) == Lower(name) \in DOMAIN m

\* Collection::add, addRaw, remove (the typed header first) and clear.
Add(c, name, value) == [c EXCEPT !.headers = Insert(@, name, value)]
AddRaw(c, name, value) == [c EXCEPT !.raw = Insert(@, name, value)]
RemoveHeader(c, name) == IF Holds(c.headers, name) THEN [c EXCEPT !.headers = Erase(@, name)]
                   ELSE [c EXCEPT !.raw = Erase(@, name)]
Clear(c) == Empty

\* HeadersStep of the parser: what a header line of a message adds (makeHeader raises for no name it is asked for).
AddLine(c, name, value) ==
    AddRaw(IF IsRegistered(name) THEN Add(c, name, value) ELSE c, name, value)

\* get and tryGet see typed headers only, getRaw and tryGetRaw raw ones; None where get raises.
None == "none"
Get(c, name) == IF Holds(c.headers, name) THEN c.headers[Lower(name)] ELSE None
GetRaw(c, name) == IF Holds(c.raw, name) THEN c.raw[Lower(name)] ELSE None
Has(c, name) == Get(c, name) # None

\* One call: <<operation, name, value>>.
Apply(c, call) == CASE call[1] = "line" -> AddLine(c, call[2], call[3])
                    [] call[1] = "add" -> Add(c, call[2], call[3])
                    [] call[1] = "remove" -> RemoveHeader(c, call[2])
                    [] OTHER -> Clear(c)
Collection(calls) == FoldLeft(Apply, Empty, calls)

-----------------------------------------------------------------------------
\* The calls on a name, and the first value after the last time it was taken out.
Same(a, b) == Lower(a) = Lower(b)
FirstSince(calls, name, ops, i) ==
    LET adds == {j \in i + 1 .. Len(calls) : calls[j][1] \in ops /\ Same(calls[j][2], name)}
    IN  IF adds = {} THEN None ELSE calls[CHOOSE j \in adds : \A k \in adds : j <= k][3]

\* For every spelling of a name, get returns the first value that was added since the name was last
\* removed or the collection cleared, and the raw text of a header is lost only by a clear or by
\* removing it when no typed header of that name was left: the first remove of a parsed header leaves
\* its text behind.
HeaderLookup(calls, names) ==
    LET c == Collection(calls)
        At(i) == Collection(SubSeq(calls, 1, i))
        Cut(i, name, typed) == \/ calls[i][1] = "clear"
                               \/ calls[i][1] = "remove" /\ Same(calls[i][2], name) /\ Has(At(i - 1), name) = typed
        LastCut(name, typed) == LET cuts == {i \in DOMAIN calls : Cut(i, name, typed)}
                                IN  IF cuts = {} THEN 0 ELSE CHOOSE i \in cuts : \A j \in cuts : j <= i
    IN  \A n \in names :
            /\ Get(c, n) = FirstSince(calls, n, IF IsRegistered(n) THEN {"line", "add"} ELSE {"add"}, LastCut(n, TRUE))
            /\ GetRaw(c, n) = FirstSince(calls, n, {"line"}, LastCut(n, FALSE))
=============================================================================
