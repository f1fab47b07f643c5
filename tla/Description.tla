----------------------------- MODULE Description ----------------------------
(***************************************************************************)
(* The description of a REST interface (src/common/description.cc): routes *)
(* grouped by path and set up through builders, the router that is filled  *)
(* from it, the JSON that the serializer writes, and the handler that      *)
(* serves both.  A call of the application is a record; a resource is a    *)
(* sequence of characters.                                                 *)
(***************************************************************************)
EXTENDS Integers, Sequences, FiniteSets
LOCAL INSTANCE SequencesExt

\* The operators of the router, on trees that are given to them.
R == INSTANCE Router WITH Methods <- {}, Resources <- {}, Requests <- {}, MaxCalls <- 0,
                          routes <- <<>>, hooks <- <<>>, registered <- {}, splatGone <- FALSE, calls <- 0

\* A path with a method; the builder sets the rest of it.
Path(method, value) == [method |-> method, value |-> value, hidden |-> FALSE, bound |-> FALSE, params |-> 0]

\* PathGroup: the paths of each name in the order they were added, Null for no path.
Null == 0
HasPath(paths, method, value) == \E i \in DOMAIN paths : paths[i].method = method /\ paths[i].value = value
GroupOf(paths, value) == SelectSeq(paths, LAMBDA p : p.value = value)

\* An add that does not look for the path.
AddPathAgain(d, call) ==
    [paths |-> Append(d.paths, [Path(call.method, call.value) EXCEPT !.params = call.params]),
     builder |-> Len(d.paths) + 1, crashed |-> d.crashed]

\* PathGroup::add under SubPath::route and Description::route, which copies the parameters of the
\* sub-path (SubPath::path gives none of them to a sub-path of its own).  A second route of a method
\* is not added and its builder has no path.
AddPath(d, call) ==
    IF HasPath(d.paths, call.method, call.value) THEN [d EXCEPT !.builder = Null]
    ELSE [paths |-> Append(d.paths, [Path(call.method, call.value) EXCEPT !.params = call.params]),
          builder |-> Len(d.paths) + 1, crashed |-> d.crashed]

\* PathBuilder::bind, hide and parameter on the builder of the last route; a builder without a path
\* writes through a null pointer.  (One that is kept while its group grows points to freed memory.)
Build(d, call) ==
    IF d.builder = Null THEN [d EXCEPT !.crashed = TRUE]
    ELSE [d EXCEPT !.paths[d.builder] = CASE call.op = "bind" -> [@ EXCEPT !.bound = TRUE]
                                          [] call.op = "hide" -> [@ EXCEPT !.hidden = TRUE]
                                          [] OTHER -> [@ EXCEPT !.params = @ + 1]]

Empty == [paths |-> <<>>, builder |-> Null, crashed |-> FALSE]
Described(calls) == FoldLeft(LAMBDA d, c : IF c.op = "route" THEN AddPath(d, c) ELSE Build(d, c), Empty, calls)

-----------------------------------------------------------------------------
\* Router::initFromDescription: it stops at a path that is not bound or that addRoute refuses, and
\* what it added before stays.
RECURSIVE InitFrom(_, _)
InitFrom(trees, paths) ==
    IF paths = <<>> THEN [trees |-> trees, raised |-> FALSE]
    ELSE LET p == Head(paths)
             added == R!AddRoute(trees[p.method], R!Keys(p.value), 1)
         IN  IF ~p.bound THEN [trees |-> trees, raised |-> TRUE]
             ELSE IF added.raised THEN [trees |-> [trees EXCEPT ![p.method] = added.tree], raised |-> TRUE]
             ELSE InitFrom([trees EXCEPT ![p.method] = added.tree], Tail(paths))

-----------------------------------------------------------------------------
(* The JSON *)

\* The fragments getline reads between slashes: none after a last slash.
Fragments(path) ==
    LET all == FoldLeft(LAMBDA fs, c : IF c = "/" THEN Append(fs, <<>>)
                                       ELSE [fs EXCEPT ![Len(fs)] = Append(@, c)], <<<<>>>>, path)
    IN  IF Last(all) = <<>> THEN Front(all) ELSE all

\* processFragment: a question mark goes, a parameter is put in braces.
SwaggerFragment(f) ==
    LET at == SelectInSeq(f, LAMBDA c : c = "?")
        g == IF at = 0 THEN f ELSE RemoveAt(f, at)
    IN  IF g # <<>> /\ g[1] = ":" THEN <<"{">> \o Tail(g) \o <<"}">> ELSE g

\* Path::swaggerFormat; ok is false where it throws.
Swagger(path, fs) ==
    LET Slashed(i) == SwaggerFragment(fs[i]) \o <<"/">>
        start == FoldLeft(LAMBDA w, i : w \o Slashed(i), <<>>, [i \in 1 .. Len(fs) - 1 |-> i])
    IN  IF path = <<>> THEN [ok |-> TRUE, text |-> <<>>]
        ELSE IF path[1] # "/" THEN [ok |-> FALSE, text |-> <<>>]
        ELSE [ok |-> TRUE, text |-> start \o (IF Last(fs) = <<>> THEN <<"/">> ELSE SwaggerFragment(Last(fs)))]
SwaggerFormat(path) == Swagger(path, Fragments(path))

\* serializePathGroups: a group of hidden paths is left out, and so is each hidden path; the base
\* path is cut from the front of a name.
Serialized(paths, base) ==
    LET shown == SelectSeq(paths, LAMBDA p : ~p.hidden)
        Name(v) == IF base # <<>> /\ IsPrefix(base, v) THEN SubSeq(v, Len(base) + 1, Len(v)) ELSE v
        Out(p) == SwaggerFormat(Name(p.value))
    IN  [ok |-> \A i \in DOMAIN shown : Out(shown[i]).ok,
         json |-> {[path |-> Out(shown[i]).text, method |-> shown[i].method, params |-> shown[i].params] :
                      i \in DOMAIN shown}]

-----------------------------------------------------------------------------
\* The handler Swagger::install adds: the page and its files under uiPath, then the JSON at apiPath.
Serve(res, uiPath, apiPath) ==
    LET slashed == IF uiPath = <<>> \/ Last(uiPath) # "/" THEN Append(uiPath, "/") ELSE uiPath
    IN  IF res = uiPath \/ res = slashed THEN IF Last(res) = "/" THEN "index" ELSE "moved"
        ELSE IF IsPrefix(uiPath, res) THEN "file"
        ELSE IF res = apiPath THEN "json" ELSE "unanswered"

-----------------------------------------------------------------------------
Slashes(v) == \A i \in 1 .. Len(v) - 1 : ~(v[i] = "/" /\ v[i + 1] = "/")
Names(v) == LET ks == R!Keys(v) IN [i \in DOMAIN ks |-> ks[i].name]
Valid(v) == LET ks == R!Keys(v) IN \A i \in DOMAIN ks : ks[i].type # "Invalid"

\* Filling the router from a description fails exactly when a path is not bound or two paths are
\* the same to the router, which does not see slashes at their ends, and else every route that was
\* described is in the router; the JSON can be written when the base path ends where a segment of
\* the paths does; two paths have one entry in the JSON exactly when the router knows them by the
\* same names; and a builder without a path is only used where a route was described twice.
Served(calls, base, d, filled) ==
    LET Ps == {d.paths[i] : i \in DOMAIN d.paths}
        Fits(p) == ~IsPrefix(base, p.value) \/ base = <<>> \/ Len(p.value) = Len(base) \/ p.value[Len(base) + 1] = "/"
        Again(i) == \E j \in 1 .. i - 1 : /\ calls[i].op = "route" /\ calls[j].op = "route"
                                         /\ calls[i].method = calls[j].method /\ calls[i].value = calls[j].value
    IN  /\ d.crashed => \E i \in DOMAIN calls : Again(i)
        /\ filled.raised = \/ \E p \in Ps : ~p.bound \/ ~Valid(p.value)
                           \/ \E p, q \in Ps : p # q /\ p.method = q.method /\ R!Keys(p.value) = R!Keys(q.value)
        /\ ~filled.raised => \A p \in Ps : R!Keys(p.value) \in DOMAIN filled.trees[p.method].route
        /\ \A i \in DOMAIN calls : calls[i].op = "route" =>
              Cardinality({p \in Ps : p.method = calls[i].method /\ p.value = calls[i].value}) = 1
        /\ (\A p \in Ps : Fits(p)) => Serialized(d.paths, base).ok
        /\ base = <<>> => \A p, q \in Ps :
              Slashes(p.value) /\ Slashes(q.value) /\ Valid(p.value) /\ Valid(q.value) =>
                 (SwaggerFormat(p.value) = SwaggerFormat(q.value)) = (Names(p.value) = Names(q.value))
Filled(calls, base, d) ==
    Served(calls, base, d, InitFrom([m \in {d.paths[i].method : i \in DOMAIN d.paths} |-> R!EmptyNode], d.paths))
DescriptionServed(calls, base) == Filled(calls, base, Described(calls))

\* The JSON is served at its path, unless the pages are served from a path above it.
ApiServed(uiPath, apiPath) == IsPrefix(uiPath, apiPath) \/ Serve(apiPath, uiPath, apiPath) = "json"
=============================================================================
