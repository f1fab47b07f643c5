------------------------------- MODULE Router -------------------------------
(***************************************************************************)
(* The REST router (src/server/router.cc): a tree of path segments per     *)
(* HTTP method, into which routes are added and removed and in which the   *)
(* route of a request is searched.  A node is named by the keys on the way *)
(* to it, so a tree is the set of its nodes and the routes at some of them.*)
(* A resource is a sequence of characters.                                 *)
(***************************************************************************)
EXTENDS Integers, Sequences, FiniteSets
LOCAL INSTANCE SequencesExt

CONSTANTS Methods,      \* HTTP methods in use
          Resources,    \* resources given to addRoute and removeRoute
          Requests,     \* resources of requests
          MaxCalls      \* bound on the calls that configure the router

VARIABLES routes,       \* Router::routes, the trees of the methods that have one
          hooks,        \* middlewares, customHandlers, notFoundHandler
          registered,   \* history: the routes that were added and not removed
          splatGone,    \* history: a route that ends in a splat was removed
          calls         \* how many calls configured the router

vars == <<routes, hooks, registered, splatGone, calls>>

None == 0
Root == <<>>
EmptyNode == [nodes |-> {Root}, route |-> <<>>]
NoRoute == [route |-> None, params |-> <<>>, splats |-> <<>>]

-----------------------------------------------------------------------------
(* Paths *)

\* sanitizeResource: runs of slashes become one, the first character and a last slash go.
Sanitized(path) ==
    LET dup == FoldLeft(LAMBDA d, c : IF c # "/" \/ d = <<>> \/ Last(d) # "/" THEN Append(d, c) ELSE d,
                        <<>>, path)
    IN  IF Last(dup) = "/" THEN SubSeq(dup, 2, Len(dup) - 1) ELSE Tail(dup)

\* The segments between the slashes, as the recursion over lower_path meets them.
Segments(path) ==
    IF path = <<>> THEN <<>>
    ELSE FoldLeft(LAMBDA segs, c : IF c = "/" THEN Append(segs, <<>>)
                                   ELSE [segs EXCEPT ![Len(segs)] = Append(@, c)], <<<<>>>>, path)

\* getSegmentType, "Invalid" where it throws.
SegmentType(s) ==
    LET optional == Contains(s, "?") IN
    IF s = <<>> THEN "Fixed"
    ELSE IF s[1] = ":" THEN IF ~optional THEN "Param"
                            ELSE IF \E i \in 1 .. Len(s) - 1 : s[i] = "?" THEN "Invalid" ELSE "Optional"
    ELSE IF s[1] = "*" THEN IF Len(s) > 1 THEN "Invalid" ELSE "Splat"
    ELSE IF optional THEN "Invalid" ELSE "Fixed"

\* The key of a segment in its collection: an optional one loses its question mark.
Key(s) == [type |-> SegmentType(s), name |-> IF SegmentType(s) = "Optional" THEN Front(s) ELSE s]

Keys(resource) == LET segs == Segments(Sanitized(resource)) IN [i \in DOMAIN segs |-> Key(segs[i])]

-----------------------------------------------------------------------------
(* The tree *)

\* The children of a node in one of its collections.
Kids(t, n, type) == {k \in t.nodes : Len(k) = Len(n) + 1 /\ Front(k) = n /\ Last(k).type = type}

\* SegmentTreeNode::addRoute: nodes are made on the way down, also when a later segment throws.
AddRoute(t, keys, handler) ==
    LET bad  == {i \in DOMAIN keys : keys[i].type = "Invalid"}
        upTo == IF bad = {} THEN Len(keys) ELSE (CHOOSE i \in bad : \A j \in bad : i <= j) - 1
        made == t.nodes \cup {SubSeq(keys, 1, i) : i \in 0 .. upTo}
    IN  IF bad # {} \/ keys \in DOMAIN t.route
        THEN [tree |-> [t EXCEPT !.nodes = made], raised |-> TRUE]
        ELSE [tree |-> [nodes |-> made, route |-> [k \in DOMAIN t.route \cup {keys} |->
                                                     IF k = keys THEN handler ELSE t.route[k]]],
              raised |-> FALSE]

\* A subtree erased with everything below it.
Erased(t, n) == LET left == {k \in t.nodes : ~IsPrefix(n, k)}
                IN  [nodes |-> left, route |-> [k \in DOMAIN t.route \cap left |-> t.route[k]]]

\* The value removeRoute returns at a node that is not above a splat.
Removable(t, n) == n \notin DOMAIN t.route /\ \A k \in t.nodes : k = n \/ ~IsPrefix(n, k)

\* One level of the return of removeRoute: the child at depth d + 1 was removable or not.
Unwound(t, keys, d, removable) ==
    LET child == SubSeq(keys, 1, d + 1) IN
    IF keys[d + 1].type = "Splat" THEN [tree |-> t, removable |-> removable]
    ELSE LET t2 == IF removable THEN Erased(t, child) ELSE t
         IN  [tree |-> t2, removable |-> Removable(t2, SubSeq(keys, 1, d))]

\* A removeRoute that only takes the route of a node with no other below it.
RemoveRouteOfLeaf(t, keys) ==
    IF keys \notin t.nodes THEN [tree |-> t, raised |-> TRUE]
    ELSE IF \E k \in t.nodes : k # keys /\ IsPrefix(keys, k) THEN [tree |-> t, raised |-> FALSE]
    ELSE [tree |-> Erased(t, keys), raised |-> FALSE]

\* SegmentTreeNode::removeRoute.
RemoveRoute(t, keys) ==
    IF keys \notin t.nodes THEN [tree |-> t, raised |-> TRUE]
    ELSE LET bare == [t EXCEPT !.route = [k \in DOMAIN @ \ {keys} |-> @[k]]]
             up == FoldLeft(LAMBDA r, i : Unwound(r.tree, keys, Len(keys) - i, r.removable),
                            [tree |-> bare, removable |-> Removable(bare, keys)],
                            [i \in 1 .. Len(keys) |-> i])
         IN  [tree |-> up.tree, raised |-> FALSE]

-----------------------------------------------------------------------------
(* Searching.  The order of an unordered_map is not known, so a search has *)
(* a set of possible results.                                              *)

\* The first of the tries that finds a route, or what comes after them.
OrElse(tries, rest) == (UNION tries \ {NoRoute}) \cup (IF \A t \in tries : NoRoute \in t THEN rest ELSE {})

RECURSIVE FindRoute(_, _, _, _, _)
\* SegmentTreeNode::findRoute below node n; params and splats are popped when a branch fails.
FindRoute(t, n, segs, params, splats) ==
    IF segs = <<>>
    THEN LET optional == Kids(t, n, "Optional") IN
         IF optional # {} THEN UNION {FindRoute(t, o, <<>>, params, splats) : o \in optional}
         ELSE IF n \in DOMAIN t.route
              THEN {[route |-> t.route[n], params |-> params, splats |-> splats]}
              ELSE {NoRoute}
    ELSE LET seg == Head(segs)
             Below(k, ps, ss) == FindRoute(t, k, Tail(segs), ps, ss)
             With(k) == Append(params, <<Last(k).name, seg>>)
         IN  OrElse({Below(k, params, splats) : k \in {f \in Kids(t, n, "Fixed") : Last(f).name = seg}},
             OrElse({Below(k, With(k), splats) : k \in Kids(t, n, "Param")},
             OrElse({OrElse({Below(k, With(k), splats)}, Below(k, params, splats)) : k \in Kids(t, n, "Optional")},
             OrElse({Below(k, params, Append(splats, seg)) : k \in Kids(t, n, "Splat")}, {NoRoute}))))

\* The search of a whole sanitized path; a method without a tree has no route.
Find(method, path) ==
    IF method \notin DOMAIN routes THEN {NoRoute}
    ELSE FindRoute(routes[method], Root, Segments(path), <<>>, <<>>)

\* Whether another method has a route for the path: the methods are all searched.
Supported(method, path) ==
    LET found == {Find(m, path) : m \in DOMAIN routes \ {method}}
    IN  (IF \E f \in found : f # {NoRoute} THEN {TRUE} ELSE {})
            \cup (IF \A f \in found : NoRoute \in f THEN {FALSE} ELSE {})

\* Router::route: what a request is answered by.
Route(method, resource) ==
    LET path == Sanitized(resource)
        Other(by) == [by |-> by, found |-> NoRoute]
        Unrouted == IF TRUE \in Range(hooks.custom) THEN {Other("custom")}
                    ELSE {IF supported THEN Other("405")
                          ELSE Other(IF hooks.notFound THEN "notFoundHandler" ELSE "404") :
                             supported \in Supported(method, path)}
    IN  IF FALSE \in Range(hooks.middlewares) THEN {Other("middleware")}
        ELSE UNION {IF r = NoRoute THEN Unrouted ELSE {[by |-> "route", found |-> r]} : r \in Find(method, path)}

\* Request::hasParam, param and splatAt; None where they throw.
HasParam(found, name) == \E i \in DOMAIN found.params : found.params[i][1] = name
Param(found, name) == IF HasParam(found, name)
                      THEN SelectSeq(found.params, LAMBDA p : p[1] = name)[1][2] ELSE <<>>
SplatAt(found, i) == IF i >= Len(found.splats) THEN <<>> ELSE found.splats[i + 1]

-----------------------------------------------------------------------------
(* The calls of the application *)

Init == /\ routes = <<>>
        /\ hooks = [middlewares |-> <<>>, custom |-> <<>>, notFound |-> FALSE]
        /\ registered = {}
        /\ splatGone = FALSE
        /\ calls = 0

Call == calls < MaxCalls /\ calls' = calls + 1

\* routes[method] makes an empty tree for a method seen first.
TreeOf(method) == IF method \in DOMAIN routes THEN routes[method] ELSE EmptyNode
SetTree(method, t) == routes' = [m \in DOMAIN routes \cup {method} |-> IF m = method THEN t ELSE routes[m]]

\* Router::addRoute, under get, post, put, patch, del, options and head.
Add(method, resource) ==
    LET keys == Keys(resource)
        done == AddRoute(TreeOf(method), keys, calls + 1)
    IN  /\ Call
        /\ SetTree(method, done.tree)
        /\ registered' = IF done.raised THEN registered
                         ELSE registered \cup {[method |-> method, keys |-> keys, handler |-> calls + 1]}
        /\ UNCHANGED <<hooks, splatGone>>

\* Router::removeRoute.
Drop(method, resource) ==
    LET keys == Keys(resource)
        done == RemoveRoute(TreeOf(method), keys)
    IN  /\ Call
        /\ SetTree(method, done.tree)
        /\ registered' = {r \in registered : r.method # method \/ r.keys # keys}
        /\ splatGone' = (splatGone \/ (~done.raised /\ "Splat" \in {keys[i].type : i \in DOMAIN keys}))
        /\ UNCHANGED hooks

\* addMiddleware, addCustomHandler and addNotFoundHandler, with what the function will answer.
Hook(which, answer) ==
    /\ Call
    /\ hooks' = IF which = "notFound" THEN [hooks EXCEPT !.notFound = TRUE]
                ELSE [hooks EXCEPT ![which] = Append(@, answer)]
    /\ UNCHANGED <<routes, registered, splatGone>>

Next == \/ \E m \in Methods, r \in Resources : Add(m, r) \/ Drop(m, r)
        \/ \E w \in {"middlewares", "custom", "notFound"}, a \in BOOLEAN : Hook(w, a)

-----------------------------------------------------------------------------
(* A route matches a request segment by segment; only optional segments at *)
(* its end may be missing.                                                 *)

Matches(keys, segs) ==
    /\ Len(segs) <= Len(keys)
    /\ \A i \in DOMAIN keys : IF i <= Len(segs) THEN keys[i].type = "Fixed" => keys[i].name = segs[i]
                              ELSE keys[i].type = "Optional"

\* What the request's segments at the keys of some types are.
Bound(keys, segs, types) ==
    LET at == SelectSeq([i \in 1 .. Len(segs) |-> i], LAMBDA i : keys[i].type \in types)
    IN  [j \in DOMAIN at |-> <<keys[at[j]].name, segs[at[j]]>>]

Rank(type) == CASE type = "Fixed" -> 1 [] type = "Param" -> 2 [] type = "Optional" -> 3 [] OTHER -> 4

\* At the first segment where two routes differ, the first one is at least as specific.
Precedes(k1, k2) == \A i \in 1 .. (IF Len(k1) < Len(k2) THEN Len(k1) ELSE Len(k2)) :
                       (\A j \in 1 .. i - 1 : k1[j] = k2[j]) => Rank(k1[i].type) <= Rank(k2[i].type)

\* A route of the request's own method that matches it.
Candidates(method, segs) == {r \in registered : r.method = method /\ Matches(r.keys, segs)}

\* Whatever routes were added and removed before, a handler is only run for a request its own
\* route matches, with the parameters and splats its route takes from the request and none that
\* a branch given up left behind (findRoute backtracks over shared vectors).
RightRoute ==
    \A m \in Methods, q \in Requests :
        LET segs == Segments(Sanitized(q)) IN
        \A a \in Route(m, q) :
            a.by = "route" =>
                \E r \in Candidates(m, segs) :
                    /\ a.found.route = r.handler
                    /\ a.found.params = Bound(r.keys, segs, {"Param", "Optional"})
                    /\ \A i \in DOMAIN a.found.splats :
                          SplatAt(a.found, i - 1) = Bound(r.keys, segs, {"Splat"})[i][2]
                    /\ \A i \in DOMAIN segs : r.keys[i].type = "Param" => HasParam(a.found, r.keys[i].name)

\* A request that some route matches is never answered 404 or 405, and the most specific route
\* answers it, as long as no route has an optional segment (those hide the route of the node
\* above them) and no route with a splat was removed.
FoundInOrder ==
    (~splatGone /\ \A m \in DOMAIN routes, k \in UNION {routes[m2].nodes : m2 \in DOMAIN routes} :
                      k # Root => Last(k).type # "Optional") =>
    \A m \in Methods, q \in Requests :
        LET segs == Segments(Sanitized(q)) IN
        \A a \in Route(m, q) :
            /\ a.by \in {"404", "405", "custom", "notFoundHandler"} => Candidates(m, segs) = {}
            /\ a.by = "405" => \E m2 \in Methods : Candidates(m2, segs) # {}
            /\ a.by = "route" => \A r, o \in Candidates(m, segs) :
                                    r.handler = a.found.route => Precedes(r.keys, o.keys)
=============================================================================
