-------------------------- MODULE EventMethProofs ---------------------------
(***************************************************************************)
(* No event of the libevent back end is used after it was deleted, and no  *)
(* call of it fails, for any number of requests and any limit of the       *)
(* counters.                                                               *)
(*                                                                         *)
(* What a thread still has to do is one of a few sequences of steps.  They *)
(* are told by predicates, each named for the step it begins with, and     *)
(* numbered by the steps that are left of a call of ctl.                   *)
(***************************************************************************)
EXTENDS EventMeth, SequenceTheorems, TLAPS

Dos == {"write", "take", "find", "free", "unlock", "time", "mark", "ctl", "activate", "set", "close",
        "release", "post", "handled", "detached"}
Ops == {"", "Add", "Mod", "Del", "on", "off", "real", "artificial"}
StepType == [do : Dos, e : Events, op : Ops, flags : SUBSET EvFlags]

First(s, do, e, op) == s # <<>> /\ Head(s).do = do /\ Head(s).e = e /\ Head(s).op = op

-----------------------------------------------------------------------------
(* What the worker has to do: HandleQueue, ...                             *)

TmrAdd1(s) == First(s, "mark", Tmr, "real") /\ Tail(s) = <<>>
TmrAdd2(s) == First(s, "set", Tmr, "Add") /\ TmrAdd1(Tail(s))
TmrAdd3(s) == First(s, "activate", Tmr, "Add") /\ TmrAdd2(Tail(s))
TmrAdd4(s) == First(s, "ctl", Tmr, "Add") /\ TmrAdd3(Tail(s))

\* The timer's registration follows if tm is true, ...
AfterSock(s, tm) == IF tm THEN TmrAdd4(s) ELSE s = <<>>
SockAdd1(s, tm) == First(s, "mark", Sock, "real") /\ AfterSock(Tail(s), tm)
SockAdd2(s, tm) == First(s, "set", Sock, "Add") /\ SockAdd1(Tail(s), tm)
SockAdd3(s, tm) == First(s, "activate", Sock, "Add") /\ SockAdd2(Tail(s), tm)
SockAdd4(s, tm) == First(s, "ctl", Sock, "Add") /\ Head(s).flags = {"WRITE"} /\ SockAdd3(Tail(s), tm)

\* ... and before it the socket's if sk is true.
AfterEfd(s, sk, tm) == IF sk THEN SockAdd4(s, tm) ELSE AfterSock(s, tm)
EfdUnlock(s, sk, tm) == First(s, "unlock", Efd, "") /\ AfterEfd(Tail(s), sk, tm)
EfdAdd1(s, sk, tm) == First(s, "set", Efd, "Add") /\ EfdUnlock(Tail(s), sk, tm)
EfdAdd2(s, sk, tm) == First(s, "ctl", Efd, "Add") /\ EfdAdd1(Tail(s), sk, tm)
EfdFree(s, sk, tm) == First(s, "free", Efd, "") /\ (EfdAdd2(Tail(s), sk, tm) \/ EfdUnlock(Tail(s), sk, tm))
EfdDel1(s, sk, tm) == First(s, "set", Efd, "Del") /\ EfdFree(Tail(s), sk, tm)
EfdDel2(s, sk, tm) == First(s, "ctl", Efd, "Del") /\ EfdDel1(Tail(s), sk, tm)
EfdFind(s, sk, tm) == First(s, "find", Efd, "") /\ AfterEfd(Tail(s), sk, tm)
EfdTake(s, sk, tm) == First(s, "take", Efd, "") /\ AfterEfd(Tail(s), sk, tm)

\* The eventfd is read, and not in interest_ while its ev_ is made anew.
EfdOut(s, sk, tm) == EfdFree(s, sk, tm) \/ EfdAdd2(s, sk, tm) \/ EfdAdd1(s, sk, tm)
Reading(s, sk, tm) ==
    \/ EfdTake(s, sk, tm) \/ EfdFind(s, sk, tm) \/ EfdDel2(s, sk, tm) \/ EfdDel1(s, sk, tm)
    \/ EfdOut(s, sk, tm) \/ EfdUnlock(s, sk, tm) \/ AfterEfd(s, sk, tm)

\* ... HandleWritable ...
SockMod1(s) == First(s, "mark", Sock, "real") /\ Tail(s) = <<>>
SockMod2(s) == First(s, "set", Sock, "Mod") /\ SockMod1(Tail(s))
SockMod3(s) == First(s, "activate", Sock, "Mod") /\ SockMod2(Tail(s))
SockMod4(s) == First(s, "ctl", Sock, "Mod") /\ SockMod3(Tail(s))

\* ... and Settle.
Release(s) == First(s, "release", Tmr, "") /\ Tail(s) = <<>>
Off1(s) == First(s, "mark", Tmr, "real") /\ Release(Tail(s))
Off2(s) == First(s, "set", Tmr, "Del") /\ Off1(Tail(s))
Off3(s) == First(s, "ctl", Tmr, "Del") /\ Off2(Tail(s))
TimeOff(s) == First(s, "time", Tmr, "off") /\ Release(Tail(s))
TmrUnlock(s) == First(s, "unlock", Tmr, "") /\ TimeOff(Tail(s))
TmrBack1(s) == First(s, "set", Tmr, "Add") /\ TmrUnlock(Tail(s))
TmrBack2(s) == First(s, "ctl", Tmr, "Add") /\ TmrBack1(Tail(s))
TmrFree(s) == First(s, "free", Tmr, "") /\ (TmrBack2(Tail(s)) \/ TmrUnlock(Tail(s)))
TmrDel1(s) == First(s, "set", Tmr, "Del") /\ TmrFree(Tail(s))
TmrDel2(s) == First(s, "ctl", Tmr, "Del") /\ TmrDel1(Tail(s))
TmrFind(s) == First(s, "find", Tmr, "") /\ TimeOff(Tail(s))
TmrTake(s) == First(s, "take", Tmr, "") /\ TimeOff(Tail(s))

\* The timer is settled, and out of interest_ at some steps.
SettleOut(s) == TmrFree(s) \/ TmrBack2(s) \/ TmrBack1(s) \/ Off1(s) \/ Release(s)
Settling(s) ==
    \/ TmrTake(s) \/ TmrFind(s) \/ TmrDel2(s) \/ TmrDel1(s) \/ TmrUnlock(s) \/ TimeOff(s) \/ Off3(s) \/ Off2(s)
    \/ SettleOut(s)

\* The timer is being registered.
TmrAdding(s) == TmrAdd3(s) \/ TmrAdd2(s) \/ TmrAdd1(s)
SockAdding(s, tm) == SockAdd3(s, tm) \/ SockAdd2(s, tm) \/ SockAdd1(s, tm)
SockMoving(s) == SockMod4(s) \/ SockMod3(s) \/ SockMod2(s) \/ SockMod1(s)

-----------------------------------------------------------------------------
(* What the application's thread has to do: Perform.                       *)

AppWrite(s) == First(s, "write", Efd, "") /\ Tail(s) = <<>>
AppPost(s) == First(s, "post", Efd, "") /\ AppWrite(Tail(s))
On1(s) == First(s, "mark", Tmr, "artificial") /\ AppPost(Tail(s))
On2(s) == First(s, "set", Tmr, "Add") /\ On1(Tail(s))
On3(s) == First(s, "ctl", Tmr, "Add") /\ On2(Tail(s))
TimeOn(s) == First(s, "time", Tmr, "on") /\ AppPost(Tail(s))
AppUnlock(s) == First(s, "unlock", Tmr, "") /\ TimeOn(Tail(s))
AppFree(s) == First(s, "free", Tmr, "") /\ AppUnlock(Tail(s))
AppFind(s) == First(s, "find", Tmr, "") /\ TimeOn(Tail(s))
AppTake(s) == First(s, "take", Tmr, "") /\ TimeOn(Tail(s))

AppDone(s) == s = <<>> \/ AppWrite(s)
ArmingOut(s) == AppTake(s) \/ AppFind(s) \/ AppFree(s) \/ AppUnlock(s) \/ TimeOn(s) \/ On3(s) \/ On2(s)
Arming(s) == ArmingOut(s) \/ On1(s) \/ AppPost(s)

-----------------------------------------------------------------------------
(* What the owner has to do.                                               *)

ShutWrite(s) == First(s, "write", Sfd, "") /\ Tail(s) = <<>>
SockHandled(s) == First(s, "handled", Sock, "") /\ Tail(s) = <<>>
SockClose(s) == First(s, "close", Sock, "") /\ SockHandled(Tail(s))
PoolClose(s) == First(s, "close", Tmr, "") /\ Tail(s) = <<>>
Detaching(s) == First(s, "detached", Efd, "") /\ Tail(s) = <<>>
TmrClose(s) == First(s, "close", Tmr, "") /\ Detaching(Tail(s))

\* the timer is closed with the queue if tm is true
AfterQueue(s, tm) == IF tm THEN TmrClose(s) ELSE Detaching(s)
QueueClose(s, tm) == First(s, "close", Efd, "") /\ AfterQueue(Tail(s), tm)
Unbind1(s, tm) == First(s, "mark", Efd, "real") /\ QueueClose(Tail(s), tm)
Unbind2(s, tm) == First(s, "set", Efd, "Del") /\ Unbind1(Tail(s), tm)
Unbind3(s, tm) == First(s, "activate", Efd, "Del") /\ Unbind2(Tail(s), tm)
Unbind4(s, tm) == First(s, "ctl", Efd, "Del") /\ Unbind3(Tail(s), tm)
Unbinding(s, tm) == Unbind4(s, tm) \/ Unbind3(s, tm) \/ Unbind2(s, tm) \/ Unbind1(s, tm) \/ QueueClose(s, tm)
SfdClose(s) == First(s, "close", Sfd, "") /\ Tail(s) = <<>>

-----------------------------------------------------------------------------
(* The inductive invariant.                                                *)

TypeInv == TypeOK /\ todo \in [Threads -> Seq(StepType)]

\* Where the threads can be.  Once the client is told to stop the worker
\* handles nothing more than what it is handling, and neither the queue nor the
\* socket is closed before it has.
PhaseInv ==
    /\ app.quit <=> pc.owner # "run"
    /\ alive <=> pc.owner # "done"
    /\ pc.owner \notin {"join", "done"} => pc.worker \in {"begin", "gone"} \/ lock["poller"] = Worker
    /\ pc.worker = "handle" => lock["handling"] = Worker /\ pc.owner \notin {"join", "done"} /\ ~app.stop
    /\ pc.worker \in {"tick", "deliver"} => lock["interest"] = Worker
    /\ out # {} => pc.worker = "deliver"
    /\ pc.owner = "done" => pc.worker = "gone"
    /\ app.stop => pc.owner \notin {"run", "close"}
    /\ todo[Worker] # <<>> => pc.worker = "handle"
    /\ pc.owner \in {"detach", "join", "done"} => todo[App] = <<>>

\* The sets of the poller hold events that live and are the poller's own.
InterestInv ==
    /\ ready \subseteq interest
    /\ pc.worker = "tick" => cb.e = Tmr /\ Tmr \in interest
    /\ \A e \in interest \cup out : em[e].live
    /\ \A e \in interest : em[e].emee /\ em[e].ev # "none"
    /\ alive => Sfd \in interest
    /\ ~alive => interest = {}
    /\ "PERSIST" \in em[Sfd].flags

\* When an event is deleted at the earliest.
LiveInv ==
    /\ em[Sfd].live \/ pc.owner = "done"
    /\ em[Efd].live \/ pc.owner \in {"join", "done"}
    /\ em[Tmr].live \/ pc.owner \in {"detach", "join", "done"}
    /\ em[Sock].live \/ app.stop

\* The timer is used by one thread at a time, and out of interest_ when it is
\* armed.
TimerInv ==
    /\ app.entry => app.timer = "used" /\ AppDone(todo[App])
    /\ Arming(todo[App]) => app.timer = "used"
    /\ app.timer = "idle" \/ ~app.registered \/ ArmingOut(todo[App]) => Tmr \notin interest
    /\ ~app.registered => /\ ~em[Tmr].emee /\ em[Tmr].counter = 0
                          /\ "READ" \notin app.wire /\ (app.entry <=> app.posted)
    /\ On3(todo[App]) \/ On2(todo[App]) => em[Tmr].emee
    /\ On2(todo[App]) => em[Tmr].ev # "none"

\* What the poller says and the worker handles before the connection is up.
NotYetRead(bs) == \A b \in bs : b.e # Tmr /\ (b.e = Sock => "READ" \notin b.flags)

ConnInv ==
    /\ app.conn = "new" => Sock \notin interest
    /\ app.conn # "up" =>
        /\ ~app.posted /\ ~app.entry /\ ~app.registered /\ app.timer = "idle"
        /\ "READ" \notin em[Sock].flags /\ "READ" \notin em[Sock].active /\ "READ" \notin em[Sock].readyFlags
        /\ cb.e = Sock => "READ" \notin cb.flags
        /\ Tmr \notin out /\ NotYetRead(batch)
    /\ pc.owner \in {"drop", "detach"} /\ pc.worker = "handle" => NotYetRead(batch)

AppInv == AppDone(todo[App]) \/ Arming(todo[App])

OwnerInv ==
    LET s == todo[Owner] IN
    /\ pc.owner = "run" => s = <<>>
    /\ pc.owner = "close" => s = <<>> \/ ShutWrite(s)
    /\ pc.owner = "drop" => s = <<>> \/ ((SockClose(s) \/ SockHandled(s)) /\ app.stop)
    /\ SockClose(s) => em[Sock].live
    /\ pc.owner = "detach" => s = <<>> \/ (PoolClose(s) /\ em[Tmr].live)
    /\ pc.owner = "join" => \/ s = <<>> \/ Detaching(s) \/ (TmrClose(s) /\ em[Tmr].live)
                            \/ \E tm \in BOOLEAN : Unbinding(s, tm) /\ em[Efd].live /\ (tm => em[Tmr].live)
    /\ pc.owner = "done" => s = <<>> \/ (SfdClose(s) /\ em[Sfd].live /\ em[Sfd].ev = "none")

\* Each call of the worker finds its event in interest_, or not, as it expects.
OfQueue(s, sk, tm) ==
    /\ Reading(s, sk, tm)
    /\ EfdOut(s, sk, tm) => Efd \notin interest
    /\ EfdAdd1(s, sk, tm) => em[Efd].emee /\ em[Efd].ev # "none"
    /\ sk => Sock \notin interest /\ app.conn # "new"

OfSock(s, tm) ==
    /\ SockAdding(s, tm) /\ app.conn # "new"
    /\ SockAdd3(s, tm) \/ SockAdd2(s, tm) => em[Sock].emee /\ em[Sock].ev # "none"

\* The timers of the pool are not being deleted.
TmrKept == pc.owner = "detach" => todo[Owner] = <<>> /\ em[Tmr].live

OfTmr(s) ==
    /\ TmrAdding(s) /\ app.entry /\ app.registered /\ TmrKept
    /\ TmrAdd3(s) \/ TmrAdd2(s) => Tmr \notin interest /\ em[Tmr].emee /\ em[Tmr].ev # "none"

OfMod(s) ==
    /\ SockMoving(s) /\ app.conn = "up"
    /\ SockMod3(s) \/ SockMod2(s) => em[Sock].emee /\ em[Sock].ev # "none"

OfSettle(s) ==
    /\ Settling(s) /\ app.entry /\ app.registered /\ TmrKept
    /\ SettleOut(s) => Tmr \notin interest
    /\ TmrBack1(s) => em[Tmr].emee /\ em[Tmr].ev # "none"

\* The timer's registration is still ahead.
TmrAhead == app.entry /\ app.registered /\ Tmr \notin interest /\ TmrKept

WorkerInv ==
    LET s == todo[Worker] IN
    \/ \E sk, tm \in BOOLEAN : OfQueue(s, sk, tm) /\ (tm => TmrAhead)
    \/ \E tm \in BOOLEAN : OfSock(s, tm) /\ (tm => TmrAhead)
    \/ OfTmr(s) \/ OfMod(s) \/ OfSettle(s)

PostedInv == TmrKept \/ ~app.posted

IndInv ==
    /\ TypeInv /\ PhaseInv /\ InterestInv /\ LiveInv /\ TimerInv /\ ConnInv
    /\ AppInv /\ OwnerInv /\ WorkerInv /\ PostedInv /\ ~thrown

-----------------------------------------------------------------------------
(* Sequences of steps.                                                     *)

\* What a step in front of others is.
LEMMA ConsStep ==
    ASSUME NEW a \in StepType, NEW s \in Seq(StepType)
    PROVE  /\ <<a>> \o s \in Seq(StepType) /\ <<a>> \o s # <<>>
           /\ Head(<<a>> \o s) = a /\ Tail(<<a>> \o s) = s
<1>1. <<a>> \o s \in Seq(StepType) /\ <<a>> \o s # <<>>
  OBVIOUS
<1>2. Head(<<a>> \o s) = a
  BY <1>1
<1>3. Tail(<<a>> \o s) = s
  <2>1. Tail(<<a>> \o s) \in Seq(StepType)
    BY <1>1
  <2>2. Len(Tail(<<a>> \o s)) = Len(s)
    BY <1>1
  <2>3. \A i \in 1 .. Len(s) : Tail(<<a>> \o s)[i] = s[i]
    BY <1>1
  <2>q. QED  BY <2>1, <2>2, <2>3, SeqEqual
<1>q. QED  BY <1>1, <1>2, <1>3

\* Steps are sequences of steps.
LEMMA StepsAreSeqs ==
    ASSUME NEW a \in StepType, NEW b \in StepType
    PROVE  <<>> \in Seq(StepType) /\ <<a>> \in Seq(StepType) /\ <<a, b>> \in Seq(StepType)
  OBVIOUS

\* Two steps in front of others.
LEMMA TwoSteps ==
    ASSUME NEW a \in StepType, NEW b \in StepType, NEW s \in Seq(StepType)
    PROVE  <<a, b>> \in Seq(StepType) /\ <<a, b>> \o s = <<a>> \o (<<b>> \o s)
<1> DEFINE l == <<a, b>> \o s
           r == <<a>> \o (<<b>> \o s)
<1>1. l \in Seq(StepType) /\ r \in Seq(StepType) /\ <<a, b>> \in Seq(StepType)
  OBVIOUS
<1>2. Len(l) = Len(s) + 2 /\ Len(r) = Len(s) + 2
  OBVIOUS
<1>3. \A i \in 1 .. Len(l) : l[i] = r[i]
  OBVIOUS
<1>q. QED  BY <1>1, <1>2, <1>3, SeqEqual

\* The names that calls use.
LEMMA Names ==
    /\ "write" \in Dos /\ "take" \in Dos /\ "find" \in Dos /\ "free" \in Dos /\ "unlock" \in Dos
    /\ "time" \in Dos /\ "mark" \in Dos /\ "ctl" \in Dos /\ "activate" \in Dos /\ "set" \in Dos
    /\ "close" \in Dos /\ "release" \in Dos /\ "post" \in Dos /\ "handled" \in Dos /\ "detached" \in Dos
    /\ "" \in Ops /\ "Add" \in Ops /\ "Mod" \in Ops /\ "Del" \in Ops
    /\ "on" \in Ops /\ "off" \in Ops /\ "real" \in Ops /\ "artificial" \in Ops
    /\ {} \in SUBSET EvFlags /\ {"WRITE"} \in SUBSET EvFlags /\ {"READ", "PERSIST"} \in SUBSET EvFlags
  BY DEF Dos, Ops, EvFlags

\* The steps of a call are steps.
LEMMA StepIsStep ==
    ASSUME NEW do \in Dos, NEW e \in Events, NEW op \in Ops, NEW f \in SUBSET EvFlags
    PROVE  /\ Step(do, e, op, f) \in StepType
           /\ Step(do, e, op, f).do = do /\ Step(do, e, op, f).e = e
           /\ Step(do, e, op, f).op = op /\ Step(do, e, op, f).flags = f
  BY DEF Step, StepType

\* A step in front of others is the first of them.
LEMMA FirstStep ==
    ASSUME NEW a \in StepType, NEW s \in Seq(StepType)
    PROVE  /\ <<a>> \o s \in Seq(StepType) /\ First(<<a>> \o s, a.do, a.e, a.op)
           /\ Head(<<a>> \o s).flags = a.flags /\ Tail(<<a>> \o s) = s
  BY ConsStep DEF First

\* One step is that step in front of none.
LEMMA OneStep ==
    ASSUME NEW a \in StepType
    PROVE  <<a>> \in Seq(StepType) /\ <<a>> = <<a>> \o <<>>
<1>1. <<a>> \in Seq(StepType)
  OBVIOUS
<1>q. QED  BY <1>1, ConcatEmptySeq

-----------------------------------------------------------------------------
(* What the calls leave to do.                                             *)

\* The threads and the descriptors have names of their own.
LEMMA Constants == Worker \in Threads /\ App \in Threads /\ Owner \in Threads
                   /\ Worker # App /\ Worker # Owner /\ App # Owner
                   /\ Sfd \in Events /\ Efd \in Events /\ Tmr \in Events /\ Sock \in Events
                   /\ Sfd # Efd /\ Sfd # Tmr /\ Sfd # Sock /\ Efd # Tmr /\ Efd # Sock /\ Tmr # Sock
  BY DEF Threads, Worker, App, Owner, Events, Sfd, Efd, Tmr, Sock

\* RenewEv of an event in interest_.
LEMMA RenewIn ==
    ASSUME NEW e \in Events, NEW f \in SUBSET EvFlags, NEW rest \in Seq(StepType)
    PROVE  LET s == (((CtlEx("Del", e, {}) \o <<Step("free", e, "", {})>>) \o CtlEx("Add", e, f))
                      \o <<Step("unlock", e, "", {})>>) \o rest
           IN  /\ s \in Seq(StepType)
               /\ \A sk, tm \in BOOLEAN : e = Efd /\ AfterEfd(rest, sk, tm) => EfdDel2(s, sk, tm)
               /\ e = Tmr /\ TimeOff(rest) => TmrDel2(s)
<1> DEFINE a == Step("ctl", e, "Del", {})
           b == Step("set", e, "Del", {})
           c == Step("free", e, "", {})
           d == Step("ctl", e, "Add", f)
           g == Step("set", e, "Add", f)
           h == Step("unlock", e, "", {})
           s == (((CtlEx("Del", e, {}) \o <<c>>) \o CtlEx("Add", e, f)) \o <<h>>) \o rest
           s1 == <<h>> \o rest
           s2 == <<g>> \o s1
           s3 == <<d>> \o s2
           s4 == <<c>> \o s3
           s5 == <<b>> \o s4
           s6 == <<a>> \o s5
<1>1. /\ a \in StepType /\ b \in StepType /\ c \in StepType /\ d \in StepType /\ g \in StepType /\ h \in StepType
      /\ a.do = "ctl" /\ a.e = e /\ a.op = "Del"
      /\ b.do = "set" /\ b.e = e /\ b.op = "Del"
      /\ c.do = "free" /\ c.e = e /\ c.op = ""
      /\ d.do = "ctl" /\ d.e = e /\ d.op = "Add"
      /\ g.do = "set" /\ g.e = e /\ g.op = "Add"
      /\ h.do = "unlock" /\ h.e = e /\ h.op = ""
  BY StepIsStep, Names DEF Step
<1> HIDE DEF a, b, c, d, g, h
<1>2. /\ s1 \in Seq(StepType) /\ First(s1, "unlock", e, "") /\ Tail(s1) = rest
  BY <1>1, FirstStep
<1>3. /\ s2 \in Seq(StepType) /\ First(s2, "set", e, "Add") /\ Tail(s2) = s1
  BY <1>2, <1>1, FirstStep
<1>4. /\ s3 \in Seq(StepType) /\ First(s3, "ctl", e, "Add") /\ Tail(s3) = s2
  BY <1>3, <1>1, FirstStep
<1>5. /\ s4 \in Seq(StepType) /\ First(s4, "free", e, "") /\ Tail(s4) = s3
  BY <1>4, <1>1, FirstStep
<1>6. /\ s5 \in Seq(StepType) /\ First(s5, "set", e, "Del") /\ Tail(s5) = s4
  BY <1>5, <1>1, FirstStep
<1>7. /\ s6 \in Seq(StepType) /\ First(s6, "ctl", e, "Del") /\ Tail(s6) = s5
  BY <1>6, <1>1, FirstStep
<1>8. s = s6
  <2>1. CtlEx("Del", e, {}) = <<a, b>> /\ CtlEx("Add", e, f) = <<d, g>>
    BY DEF CtlEx, a, b, d, g
  <2>2. <<a, b>> \in Seq(StepType) /\ <<d, g>> \in Seq(StepType) /\ <<c>> \in Seq(StepType) /\ <<h>> \in Seq(StepType)
    BY <1>1, StepsAreSeqs
  <2>3. s3 = <<d, g>> \o s1
    BY <1>1, <1>2, TwoSteps
  <2>31. s6 = <<a, b>> \o s4
    <3> HIDE DEF s4
    <3>1. s4 \in Seq(StepType)
      BY <1>5
    <3>q. QED  BY <1>1, <3>1, TwoSteps
  <2>4. <<a, b>> \o <<c>> \in Seq(StepType) /\ (<<a, b>> \o <<c>>) \o <<d, g>> \in Seq(StepType)
    BY <2>2
  <2>5. ((((<<a, b>> \o <<c>>) \o <<d, g>>) \o <<h>>) \o rest) = ((<<a, b>> \o <<c>>) \o <<d, g>>) \o s1
    BY <2>2, <2>4, ConcatAssociative
  <2>6. ((<<a, b>> \o <<c>>) \o <<d, g>>) \o s1 = (<<a, b>> \o <<c>>) \o s3
    <3>1. (((<<a, b>> \o <<c>>) \o <<d, g>>) \o s1) = (<<a, b>> \o <<c>>) \o (<<d, g>> \o s1)
      <4> HIDE DEF s1
      <4>1. s1 \in Seq(StepType)
        BY <1>2
      <4>q. QED  BY <2>2, <2>4, <4>1, ConcatAssociative
    <3>q. QED  BY <3>1, <2>3
  <2>7. (<<a, b>> \o <<c>>) \o s3 = s6
    BY <2>2, <2>31, <2>4, <1>4, ConcatAssociative
  <2>q. QED  BY <2>1, <2>5, <2>6, <2>7
<1> HIDE DEF s, s1, s2, s3, s4, s5, s6
<1>9. ASSUME NEW sk \in BOOLEAN, NEW tm \in BOOLEAN, e = Efd, AfterEfd(rest, sk, tm)
      PROVE  EfdDel2(s6, sk, tm)
  <2>1. EfdAdd2(s3, sk, tm)
    BY <1>9, <1>2, <1>3, <1>4 DEF EfdAdd2, EfdAdd1, EfdUnlock
  <2>q. QED  BY <2>1, <1>9, <1>5, <1>6, <1>7 DEF EfdDel2, EfdDel1, EfdFree
<1>10. e = Tmr /\ TimeOff(rest) => TmrDel2(s6)
  <2>1. e = Tmr /\ TimeOff(rest) => TmrBack2(s3)
    BY <1>2, <1>3, <1>4 DEF TmrBack2, TmrBack1, TmrUnlock
  <2>q. QED  BY <2>1, <1>5, <1>6, <1>7 DEF TmrDel2, TmrDel1, TmrFree
<1>q. QED  BY <1>7, <1>8, <1>9, <1>10 DEF s, c, h

\* RenewEv of an event that is not.
LEMMA RenewOut ==
    ASSUME NEW e \in Events, NEW rest \in Seq(StepType)
    PROVE  LET s == (((<<>> \o <<Step("free", e, "", {})>>) \o <<>>) \o <<Step("unlock", e, "", {})>>) \o rest
           IN  /\ s \in Seq(StepType)
               /\ \A sk, tm \in BOOLEAN : e = Efd /\ AfterEfd(rest, sk, tm) => EfdFree(s, sk, tm)
               /\ e = Tmr /\ TimeOff(rest) => TmrFree(s)
               /\ e = Tmr /\ TimeOn(rest) => AppFree(s)
<1> DEFINE c == Step("free", e, "", {})
           h == Step("unlock", e, "", {})
           s == (((<<>> \o <<c>>) \o <<>>) \o <<h>>) \o rest
           s1 == <<h>> \o rest
           s2 == <<c>> \o s1
<1>1. /\ c \in StepType /\ c.do = "free" /\ c.e = e /\ c.op = ""
      /\ h \in StepType /\ h.do = "unlock" /\ h.e = e /\ h.op = ""
  BY StepIsStep, Names DEF Step
<1> HIDE DEF c, h
<1>2. s1 \in Seq(StepType) /\ First(s1, "unlock", e, "") /\ Tail(s1) = rest
  BY <1>1, FirstStep
<1>3. s2 \in Seq(StepType) /\ First(s2, "free", e, "") /\ Tail(s2) = s1
  BY <1>2, <1>1, FirstStep
<1>4. s = s2
  <2>1. <<c>> \in Seq(StepType) /\ <<h>> \in Seq(StepType)
    BY <1>1, StepsAreSeqs
  <2>2. (<<>> \o <<c>>) \o <<>> = <<c>>
    BY <2>1, ConcatEmptySeq
  <2>3. (<<c>> \o <<h>>) \o rest = s2
    BY <2>1, ConcatAssociative
  <2>q. QED  BY <2>2, <2>3
<1> HIDE DEF s, s1, s2
<1>5. \A sk, tm \in BOOLEAN : e = Efd /\ AfterEfd(rest, sk, tm) => EfdFree(s2, sk, tm)
  BY <1>2, <1>3 DEF EfdFree, EfdUnlock
<1>6. e = Tmr /\ TimeOff(rest) => TmrFree(s2)
  BY <1>2, <1>3 DEF TmrFree, TmrUnlock
<1>7. e = Tmr /\ TimeOn(rest) => AppFree(s2)
  BY <1>2, <1>3 DEF AppFree, AppUnlock
<1>q. QED  BY <1>3, <1>4, <1>5, <1>6, <1>7 DEF s, c, h

\* What a call of ctl is, in front of rest.
CtlThen(s, e, op, f, rest) ==
    /\ s \in Seq(StepType)
    /\ First(s, "ctl", e, op) /\ Head(s).flags = f
    /\ First(Tail(s), "activate", e, op)
    /\ First(Tail(Tail(s)), "set", e, op)
    /\ First(Tail(Tail(Tail(s))), "mark", e, "real")
    /\ Tail(Tail(Tail(Tail(s)))) = rest

\* The four steps of EventMethEpollEquivImpl::ctl, in front of rest.
LEMMA CtlSeq ==
    ASSUME NEW e \in Events, NEW op \in Ops, NEW f \in SUBSET EvFlags, NEW g \in SUBSET EvFlags,
           NEW rest \in Seq(StepType)
    PROVE  LET l == <<Step("ctl", e, op, f), Step("activate", e, op, g), Step("set", e, op, f),
                      Step("mark", e, "real", {})>>
           IN  l \in Seq(StepType) /\ CtlThen(l \o rest, e, op, f, rest)
<1> DEFINE a == Step("ctl", e, op, f)
           b == Step("activate", e, op, g)
           c == Step("set", e, op, f)
           d == Step("mark", e, "real", {})
           l == <<a, b, c, d>>
           s1 == <<d>> \o rest
           s2 == <<c>> \o s1
           s3 == <<b>> \o s2
           s4 == <<a>> \o s3
<1>1. a \in StepType /\ b \in StepType /\ c \in StepType /\ d \in StepType
  BY StepIsStep, Names
<1>2. /\ a.do = "ctl" /\ a.e = e /\ a.op = op /\ a.flags = f
      /\ b.do = "activate" /\ b.e = e /\ b.op = op
      /\ c.do = "set" /\ c.e = e /\ c.op = op
      /\ d.do = "mark" /\ d.e = e /\ d.op = "real"
  BY DEF Step
<1> HIDE DEF a, b, c, d
<1>3. l \in Seq(StepType) /\ l \o rest = <<a, b>> \o (<<c, d>> \o rest)
  <2> DEFINE r == <<a, b>> \o (<<c, d>> \o rest)
  <2>1. l \in Seq(StepType) /\ l \o rest \in Seq(StepType) /\ r \in Seq(StepType)
    BY <1>1
  <2>2. Len(l \o rest) = Len(rest) + 4 /\ Len(r) = Len(rest) + 4
    BY <1>1
  <2>3. \A i \in 1 .. Len(l \o rest) : (l \o rest)[i] = r[i]
    BY <1>1
  <2>q. QED  BY <2>1, <2>2, <2>3, SeqEqual
<1> HIDE DEF l
<1>4. <<c, d>> \o rest = s2
  BY <1>1, TwoSteps
<1>6. s1 \in Seq(StepType) /\ First(s1, "mark", e, "real") /\ Tail(s1) = rest
  BY <1>1, <1>2, FirstStep
<1>7. s2 \in Seq(StepType) /\ First(s2, "set", e, op) /\ Tail(s2) = s1
  BY <1>1, <1>2, <1>6, FirstStep
<1>71. <<a, b>> \o s2 = s4
  <2> HIDE DEF s2
  <2>1. s2 \in Seq(StepType)
    BY <1>7
  <2>q. QED  BY <1>1, <2>1, TwoSteps
<1>8. s3 \in Seq(StepType) /\ First(s3, "activate", e, op) /\ Tail(s3) = s2
  BY <1>1, <1>2, <1>7, FirstStep
<1>9. s4 \in Seq(StepType) /\ First(s4, "ctl", e, op) /\ Head(s4).flags = f /\ Tail(s4) = s3
  BY <1>1, <1>2, <1>8, FirstStep
<1> HIDE DEF s1, s2, s3, s4
<1>10. CtlThen(s4, e, op, f, rest)
  BY <1>6, <1>7, <1>8, <1>9 DEF CtlThen
<1>q. QED  BY <1>3, <1>4, <1>71, <1>10 DEF l, a, b, c, d

\* ... and as Ctl makes them, whatever flags the activation takes.
LEMMA CtlSteps ==
    ASSUME TypeInv, NEW e \in Events, NEW op \in Ops, NEW f \in SUBSET EvFlags, NEW rest \in Seq(StepType)
    PROVE  /\ Ctl(op, e, f) \in Seq(StepType)
           /\ CtlThen(Ctl(op, e, f) \o rest, e, op, f, rest)
<1>1. PICK g \in SUBSET EvFlags : g = em[e].flags \ (IF em[e].ev = "none" THEN EvFlags ELSE {})
  BY DEF TypeInv, TypeOK, EventType
<1>2. Ctl(op, e, f) = <<Step("ctl", e, op, f), Step("activate", e, op, g), Step("set", e, op, f),
                        Step("mark", e, "real", {})>>
  BY <1>1 DEF Ctl
<1>q. QED  BY <1>2, CtlSeq

\* The same with nothing after it.
LEMMA CtlAlone ==
    ASSUME TypeInv, NEW e \in Events, NEW op \in Ops, NEW f \in SUBSET EvFlags
    PROVE  CtlThen(Ctl(op, e, f), e, op, f, <<>>)
<1>1. <<>> \in Seq(StepType)
  OBVIOUS
<1>2. Ctl(op, e, f) \in Seq(StepType) /\ CtlThen(Ctl(op, e, f) \o <<>>, e, op, f, <<>>)
  BY <1>1, CtlSteps
<1>3. Ctl(op, e, f) \o <<>> = Ctl(op, e, f)
  BY <1>2, ConcatEmptySeq
<1>q. QED  BY <1>2, <1>3

\* HandleQueue
LEMMA QueueSteps ==
    ASSUME TypeInv, NEW sk \in BOOLEAN, NEW tm \in BOOLEAN
    PROVE  LET s == (ReadEfd(Efd) \o (IF sk THEN Ctl("Add", Sock, {"WRITE"}) ELSE <<>>))
                     \o (IF tm THEN Ctl("Add", Tmr, {"READ", "PERSIST"}) ELSE <<>>)
           IN  s \in Seq(StepType) /\ EfdTake(s, sk, tm)
<1> DEFINE x == IF sk THEN Ctl("Add", Sock, {"WRITE"}) ELSE <<>>
           y == IF tm THEN Ctl("Add", Tmr, {"READ", "PERSIST"}) ELSE <<>>
           a == Step("take", Efd, "", {})
<1>1. a \in StepType /\ a.do = "take" /\ a.e = Efd /\ a.op = ""
  BY StepIsStep, Names, Constants DEF Step
<1>2. y \in Seq(StepType) /\ AfterSock(y, tm)
  <2>1. CASE tm
    <3>1. CtlThen(Ctl("Add", Tmr, {"READ", "PERSIST"}), Tmr, "Add", {"READ", "PERSIST"}, <<>>)
      BY CtlAlone, Names, Constants
    <3>q. QED  BY <2>1, <3>1 DEF CtlThen, AfterSock, TmrAdd4, TmrAdd3, TmrAdd2, TmrAdd1
  <2>2. CASE ~tm
    BY <2>2, EmptySeq DEF AfterSock
  <2>q. QED  BY <2>1, <2>2
<1> HIDE DEF y
<1>3. x \in Seq(StepType) /\ x \o y \in Seq(StepType) /\ AfterEfd(x \o y, sk, tm)
  <2>1. CASE sk
    <3>1. /\ Ctl("Add", Sock, {"WRITE"}) \in Seq(StepType)
          /\ CtlThen(Ctl("Add", Sock, {"WRITE"}) \o y, Sock, "Add", {"WRITE"}, y)
      BY <1>2, CtlSteps, Names, Constants
    <3>q. QED  BY <1>2, <2>1, <3>1 DEF CtlThen, AfterEfd, SockAdd4, SockAdd3, SockAdd2, SockAdd1
  <2>2. CASE ~sk
    <3>1. <<>> \o y = y /\ <<>> \in Seq(StepType)
      BY <1>2, ConcatEmptySeq, EmptySeq
    <3>q. QED  BY <1>2, <2>2, <3>1 DEF AfterEfd
  <2>q. QED  BY <2>1, <2>2
<1> HIDE DEF x
<1>4. <<a>> \in Seq(StepType)
  BY <1>1, StepsAreSeqs
<1> HIDE DEF a
<1>5. (<<a>> \o x) \o y = <<a>> \o (x \o y)
  BY <1>2, <1>3, <1>4, ConcatAssociative
<1> DEFINE z == x \o y
<1>6. z \in Seq(StepType) /\ AfterEfd(z, sk, tm)
  BY <1>3
<1> HIDE DEF z
<1>7. <<a>> \o z \in Seq(StepType) /\ EfdTake(<<a>> \o z, sk, tm)
  BY <1>1, <1>6, FirstStep DEF EfdTake
<1>q. QED  BY <1>5, <1>7 DEF ReadEfd, a, x, y, z

\* HandleWritable
LEMMA WritableSteps ==
    ASSUME TypeInv
    PROVE  LET s == Ctl("Mod", Sock, {"READ", "PERSIST"}) IN s \in Seq(StepType) /\ SockMod4(s)
<1>1. CtlThen(Ctl("Mod", Sock, {"READ", "PERSIST"}), Sock, "Mod", {"READ", "PERSIST"}, <<>>)
  BY CtlAlone, Names, Constants
<1>q. QED  BY <1>1 DEF CtlThen, SockMod4, SockMod3, SockMod2, SockMod1

\* Settle
LEMMA SettleSteps ==
    LET s == Settime(Tmr, "off") \o <<Step("release", Tmr, "", {})>> IN s \in Seq(StepType) /\ TmrTake(s)
<1> DEFINE a == Step("take", Tmr, "", {})
           b == Step("time", Tmr, "off", {})
           c == Step("release", Tmr, "", {})
           s2 == <<b>> \o <<c>>
<1>1. a \in StepType /\ b \in StepType /\ c \in StepType
  BY StepIsStep, Names, Constants
<1>2. /\ a.do = "take" /\ a.e = Tmr /\ a.op = "" /\ b.do = "time" /\ b.e = Tmr /\ b.op = "off"
      /\ c.do = "release" /\ c.e = Tmr /\ c.op = ""
  BY DEF Step
<1>3. Settime(Tmr, "off") = <<a, b>>
  BY DEF Settime
<1> HIDE DEF a, b, c
<1>4. <<>> \in Seq(StepType) /\ <<c>> \in Seq(StepType) /\ <<c>> = <<c>> \o <<>>
  BY <1>1, OneStep
<1>5. First(<<c>>, "release", Tmr, "") /\ Tail(<<c>>) = <<>>
  BY <1>1, <1>2, <1>4, FirstStep
<1>6. s2 \in Seq(StepType) /\ First(s2, "time", Tmr, "off") /\ Tail(s2) = <<c>>
  BY <1>1, <1>2, <1>4, FirstStep
<1>7. <<a, b>> \o <<c>> = <<a>> \o s2
  BY <1>1, <1>4, TwoSteps
<1> HIDE DEF s2
<1>8. <<a>> \o s2 \in Seq(StepType) /\ First(<<a>> \o s2, "take", Tmr, "") /\ Tail(<<a>> \o s2) = s2
  BY <1>1, <1>2, <1>6, FirstStep
<1>q. QED  BY <1>3, <1>5, <1>6, <1>7, <1>8 DEF TmrTake, TimeOff, Release, c

\* Perform
LEMMA PerformSteps ==
    LET s == (Settime(Tmr, "on") \o <<Step("post", Efd, "", {})>>) \o WriteEfd(Efd)
    IN  s \in Seq(StepType) /\ AppTake(s)
<1> DEFINE a == Step("take", Tmr, "", {})
           b == Step("time", Tmr, "on", {})
           c == Step("post", Efd, "", {})
           d == Step("write", Efd, "", {})
           s2 == <<c>> \o <<d>>
           s3 == <<b>> \o s2
<1>1. a \in StepType /\ b \in StepType /\ c \in StepType /\ d \in StepType
  BY StepIsStep, Names, Constants
<1>2. /\ a.do = "take" /\ a.e = Tmr /\ a.op = "" /\ b.do = "time" /\ b.e = Tmr /\ b.op = "on"
      /\ c.do = "post" /\ c.e = Efd /\ c.op = "" /\ d.do = "write" /\ d.e = Efd /\ d.op = ""
  BY DEF Step
<1>3. Settime(Tmr, "on") = <<a, b>> /\ WriteEfd(Efd) = <<d>>
  BY DEF Settime, WriteEfd
<1> HIDE DEF a, b, c, d
<1>4. /\ <<>> \in Seq(StepType) /\ <<d>> \in Seq(StepType) /\ <<d>> = <<d>> \o <<>>
      /\ <<c>> \in Seq(StepType) /\ <<a, b>> \in Seq(StepType)
  BY <1>1, OneStep, StepsAreSeqs
<1>5. First(<<d>>, "write", Efd, "") /\ Tail(<<d>>) = <<>>
  BY <1>1, <1>2, <1>4, FirstStep
<1>6. s2 \in Seq(StepType) /\ First(s2, "post", Efd, "") /\ Tail(s2) = <<d>>
  BY <1>1, <1>2, <1>4, FirstStep
<1>7. (<<a, b>> \o <<c>>) \o <<d>> = <<a, b>> \o s2
  BY <1>4, ConcatAssociative
<1> HIDE DEF s2
<1>8. s3 \in Seq(StepType) /\ First(s3, "time", Tmr, "on") /\ Tail(s3) = s2
  BY <1>1, <1>2, <1>6, FirstStep
<1>9. <<a, b>> \o s2 = <<a>> \o s3
  BY <1>1, <1>6, TwoSteps, ZenonT(40)
<1> HIDE DEF s3
<1>10. <<a>> \o s3 \in Seq(StepType) /\ First(<<a>> \o s3, "take", Tmr, "") /\ Tail(<<a>> \o s3) = s3
  BY <1>1, <1>2, <1>8, FirstStep
<1>q. QED  BY <1>3, <1>5, <1>6, <1>7, <1>8, <1>9, <1>10 DEF AppTake, TimeOn, AppPost, AppWrite, c

\* SettimeStep, when it changes the poller: rest is what Perform, or Settle, does after it.
LEMMA TimeSteps ==
    ASSUME NEW op \in Ops, NEW mark \in Ops, NEW f \in SUBSET EvFlags, NEW rest \in Seq(StepType)
    PROVE  LET s == (CtlEx(op, Tmr, f) \o <<Step("mark", Tmr, mark, {})>>) \o rest
           IN  /\ s \in Seq(StepType)
               /\ First(s, "ctl", Tmr, op) /\ First(Tail(s), "set", Tmr, op)
               /\ First(Tail(Tail(s)), "mark", Tmr, mark) /\ Tail(Tail(Tail(s))) = rest
<1> DEFINE a == Step("ctl", Tmr, op, f)
           b == Step("set", Tmr, op, f)
           c == Step("mark", Tmr, mark, {})
           s1 == <<c>> \o rest
           s2 == <<b>> \o s1
<1>1. a \in StepType /\ b \in StepType /\ c \in StepType
  BY StepIsStep, Names, Constants
<1>2. /\ a.do = "ctl" /\ a.e = Tmr /\ a.op = op /\ b.do = "set" /\ b.e = Tmr /\ b.op = op
      /\ c.do = "mark" /\ c.e = Tmr /\ c.op = mark
  BY DEF Step
<1>3. CtlEx(op, Tmr, f) = <<a, b>>
  BY DEF CtlEx
<1> HIDE DEF a, b, c
<1>4. <<c>> \in Seq(StepType) /\ <<a, b>> \in Seq(StepType)
  BY <1>1, StepsAreSeqs
<1>5. s1 \in Seq(StepType) /\ First(s1, "mark", Tmr, mark) /\ Tail(s1) = rest
  BY <1>1, <1>2, FirstStep
<1>6. (<<a, b>> \o <<c>>) \o rest = <<a, b>> \o s1
  BY <1>4, ConcatAssociative
<1> HIDE DEF s1
<1>7. s2 \in Seq(StepType) /\ First(s2, "set", Tmr, op) /\ Tail(s2) = s1
  BY <1>1, <1>2, <1>5, FirstStep
<1>8. <<a, b>> \o s1 = <<a>> \o s2
  BY <1>1, <1>5, TwoSteps
<1> HIDE DEF s2
<1>9. <<a>> \o s2 \in Seq(StepType) /\ First(<<a>> \o s2, "ctl", Tmr, op) /\ Tail(<<a>> \o s2) = s2
  BY <1>1, <1>2, <1>7, FirstStep
<1>q. QED  BY <1>3, <1>5, <1>6, <1>7, <1>8, <1>9 DEF c

\* A single step.
LEMMA SingleStep ==
    ASSUME NEW do \in Dos, NEW e \in Events
    PROVE  LET s == <<Step(do, e, "", {})>> IN s \in Seq(StepType) /\ First(s, do, e, "") /\ Tail(s) = <<>>
<1> DEFINE a == Step(do, e, "", {})
<1>1. a \in StepType
  BY StepIsStep, Names
<1>2. a.do = do /\ a.e = e /\ a.op = ""
  BY DEF Step
<1> HIDE DEF a
<1>3. <<>> \in Seq(StepType) /\ <<a>> \in Seq(StepType) /\ <<a>> = <<a>> \o <<>>
  BY <1>1, OneStep
<1>4. First(<<a>>, do, e, "") /\ Tail(<<a>>) = <<>>
  BY <1>1, <1>2, <1>3, FirstStep
<1>q. QED  BY <1>3, <1>4 DEF a

\* A step that takes the place of another one.
LEMMA FrontStep ==
    ASSUME NEW do \in Dos, NEW e \in Events, NEW rest \in Seq(StepType)
    PROVE  LET s == <<Step(do, e, "", {})>> \o rest IN s \in Seq(StepType) /\ First(s, do, e, "") /\ Tail(s) = rest
<1> DEFINE a == Step(do, e, "", {})
<1>1. a \in StepType
  BY StepIsStep, Names
<1>2. a.do = do /\ a.e = e /\ a.op = ""
  BY DEF Step
<1> HIDE DEF a
<1>3. <<a>> \o rest \in Seq(StepType) /\ First(<<a>> \o rest, do, e, "") /\ Tail(<<a>> \o rest) = rest
  BY <1>1, <1>2, FirstStep
<1>q. QED  BY <1>3 DEF a

\* CloseConnection
LEMMA CloseSteps ==
    LET s == CloseEvent(Sock) \o <<Step("handled", Sock, "", {})>> IN s \in Seq(StepType) /\ SockClose(s)
<1> DEFINE c == <<Step("handled", Sock, "", {})>>
<1>1. c \in Seq(StepType) /\ SockHandled(c)
  BY SingleStep, Names, Constants DEF SockHandled
<1> HIDE DEF c
<1>2. /\ <<Step("close", Sock, "", {})>> \o c \in Seq(StepType)
      /\ First(<<Step("close", Sock, "", {})>> \o c, "close", Sock, "")
      /\ Tail(<<Step("close", Sock, "", {})>> \o c) = c
  BY <1>1, FrontStep, Names, Constants
<1>q. QED  BY <1>1, <1>2 DEF SockClose, CloseEvent, c

\* DetachHandlers
LEMMA DetachSteps ==
    ASSUME TypeInv, NEW tm \in BOOLEAN
    PROVE  LET s == ((Ctl("Del", Efd, {}) \o CloseEvent(Efd)) \o (IF tm THEN CloseEvent(Tmr) ELSE <<>>))
                     \o <<Step("detached", Efd, "", {})>>
           IN  s \in Seq(StepType) /\ Unbind4(s, tm)
<1> DEFINE c == <<Step("detached", Efd, "", {})>>
           x == IF tm THEN CloseEvent(Tmr) ELSE <<>>
           k == CloseEvent(Efd)
           l == Ctl("Del", Efd, {})
           s1 == x \o c
           s2 == k \o s1
<1>1. c \in Seq(StepType) /\ Detaching(c)
  BY SingleStep, Names, Constants DEF Detaching
<1> HIDE DEF c
<1>2. x \in Seq(StepType) /\ s1 \in Seq(StepType) /\ AfterQueue(s1, tm)
  <2>1. CASE tm
    <3>1. /\ <<Step("close", Tmr, "", {})>> \o c \in Seq(StepType)
          /\ First(<<Step("close", Tmr, "", {})>> \o c, "close", Tmr, "")
          /\ Tail(<<Step("close", Tmr, "", {})>> \o c) = c
      BY <1>1, FrontStep, Names, Constants
    <3>2. <<Step("close", Tmr, "", {})>> \in Seq(StepType)
      BY SingleStep, Names, Constants
    <3>q. QED  BY <1>1, <2>1, <3>1, <3>2 DEF AfterQueue, TmrClose, CloseEvent
  <2>2. CASE ~tm
    <3>1. <<>> \o c = c /\ <<>> \in Seq(StepType)
      BY <1>1, ConcatEmptySeq, EmptySeq
    <3>q. QED  BY <1>1, <2>2, <3>1 DEF AfterQueue
  <2>q. QED  BY <2>1, <2>2
<1>3. k \in Seq(StepType)
  BY SingleStep, Names, Constants DEF CloseEvent
<1> HIDE DEF x
<1>4. s2 \in Seq(StepType) /\ QueueClose(s2, tm)
  <2> HIDE DEF s1
  <2>1. /\ <<Step("close", Efd, "", {})>> \o s1 \in Seq(StepType)
        /\ First(<<Step("close", Efd, "", {})>> \o s1, "close", Efd, "")
        /\ Tail(<<Step("close", Efd, "", {})>> \o s1) = s1
    BY <1>2, FrontStep, Names, Constants
  <2>q. QED  BY <1>2, <2>1 DEF QueueClose, CloseEvent
<1> HIDE DEF k
<1>5. l \in Seq(StepType) /\ CtlThen(l \o s2, Efd, "Del", {}, s2)
  <2> HIDE DEF s2
  <2>q. QED  BY <1>4, CtlSteps, Names, Constants
<1> HIDE DEF l
<1>6. ((l \o k) \o x) \o c = l \o s2
  <2>1. l \o k \in Seq(StepType)
    BY <1>3, <1>5
  <2>2. ((l \o k) \o x) \o c = (l \o k) \o s1
    <3>1. PICK a, b, d : a = l \o k /\ b = x /\ d = c
      OBVIOUS
    <3>2. a \in Seq(StepType) /\ b \in Seq(StepType) /\ d \in Seq(StepType)
      BY <1>1, <1>2, <2>1, <3>1
    <3>3. (a \o b) \o d = a \o (b \o d)
      BY <3>2, ConcatAssociative
    <3>q. QED  BY <3>1, <3>3
  <2>3. (l \o k) \o s1 = l \o s2
    <3> HIDE DEF s1
    <3>1. PICK a, b, d : a = l /\ b = k /\ d = s1
      OBVIOUS
    <3>2. a \in Seq(StepType) /\ b \in Seq(StepType) /\ d \in Seq(StepType)
      BY <1>2, <1>3, <1>5, <3>1
    <3>3. (a \o b) \o d = a \o (b \o d)
      BY <3>2, ConcatAssociative
    <3>q. QED  BY <3>1, <3>3
  <2>q. QED  BY <2>2, <2>3
<1> HIDE DEF s1, s2
<1>7. l \o s2 \in Seq(StepType) /\ Unbind4(l \o s2, tm)
  BY <1>4, <1>5 DEF CtlThen, Unbind4, Unbind3, Unbind2, Unbind1
<1>q. QED  BY <1>6, <1>7 DEF c, x, k, l

-----------------------------------------------------------------------------
(* Types.                                                                  *)

\* The step a thread is doing.
LEMMA ArgType ==
    ASSUME TypeInv, NEW t \in Threads, todo[t] # <<>>
    PROVE  Arg(t) \in StepType /\ Tail(todo[t]) \in Seq(StepType)
  BY DEF TypeInv, Arg

\* What happens to the steps that are left.
LEMMA ThenSteps ==
    ASSUME TypeInv, NEW t \in Threads, todo[t] # <<>>, NEW steps, Then(t, steps),
           steps \o Tail(todo[t]) \in Seq(StepType)
    PROVE  /\ todo' \in [Threads -> Seq(StepType)] /\ DOMAIN todo' = Threads
           /\ todo'[t] = steps \o Tail(todo[t])
           /\ \A u \in Threads : u # t => todo'[u] = todo[u]
  BY DEF TypeInv, Then

\* A step that leaves nothing new to do takes itself off the thread's call.
LEMMA ThenNone ==
    ASSUME TypeInv, NEW t \in Threads, todo[t] # <<>>, Then(t, <<>>)
    PROVE  /\ todo' \in [Threads -> Seq(StepType)] /\ DOMAIN todo' = Threads
           /\ todo'[t] = Tail(todo[t])
           /\ \A u \in Threads : u # t => todo'[u] = todo[u]
<1>1. Tail(todo[t]) \in Seq(StepType)
  BY ArgType
<1>2. <<>> \o Tail(todo[t]) = Tail(todo[t])
  BY <1>1, ConcatEmptySeq
<1>q. QED  BY <1>1, <1>2, ThenSteps

\* What the operators make of an event.
LEMMA EventTypes ==
    ASSUME NEW r \in EventType, NEW f \in SUBSET EvFlags, NEW op \in Ops
    PROVE  /\ Activated(r, f) \in EventType /\ WriteProt(r) \in EventType
           /\ EventCtl(r, op, f) \in EventType /\ ClosedEv(r) \in EventType /\ Forgotten(r) \in EventType
<1>1. \A g \in SUBSET EvFlags : Activated(r, g) \in EventType /\ Activated(r, g).counter = r.counter
  BY DEF Activated, EventType
<1>2. WriteProt(r) \in EventType
  <2>1. {"READ"} \in SUBSET EvFlags
    BY DEF EvFlags
  <2>2. PICK s \in EventType : s = (IF "READ" \in r.flags /\ r.counter = 0 THEN Activated(r, {"READ"}) ELSE r)
                               /\ s.counter = r.counter
    BY <1>1, <2>1
  <2>3. r.counter \in 0 .. MaxCount /\ MaxCount \in Nat
    BY BoundsAssumption DEF EventType
  <2>4. r.counter # MaxCount => [s EXCEPT !.counter = @ + 1] \in EventType
    BY <2>2, <2>3 DEF EventType
  <2>q. QED  BY <2>2, <2>4 DEF WriteProt
<1>3. EventCtl(r, op, f) \in EventType
  <2>1. PICK s \in EventType : s = [Owned(r) EXCEPT !.readyFlags = {}, !.told = {}]
    BY DEF Owned, EventType
  <2>2. WithEv(s, f) \in EventType
    BY DEF WithEv, EventType
  <2>3. [WithEv(s, f) EXCEPT !.ev = "added"] \in EventType
    BY <2>2 DEF EventType
  <2>4. [s EXCEPT !.ev = "idle", !.active = {}] \in EventType
    BY DEF EventType
  <2>q. QED  BY <2>1, <2>3, <2>4 DEF EventCtl
<1>4. ClosedEv(r) \in EventType /\ Forgotten(r) \in EventType
  BY DEF ClosedEv, Forgotten, EventType
<1>q. QED  BY <1>1, <1>2, <1>3, <1>4

\* What a write keeps.
LEMMA WriteProtKeeps ==
    ASSUME NEW r \in EventType
    PROVE  LET s == WriteProt(r) IN
           /\ s.live = r.live /\ s.ev = r.ev /\ s.flags = r.flags /\ s.emee = r.emee /\ s.readyFlags = r.readyFlags
           /\ s.active \subseteq r.active \cup {"READ"}
<1>1. /\ Activated(r, {"READ"}).live = r.live /\ Activated(r, {"READ"}).ev = r.ev
      /\ Activated(r, {"READ"}).flags = r.flags /\ Activated(r, {"READ"}).emee = r.emee
      /\ Activated(r, {"READ"}).readyFlags = r.readyFlags
      /\ Activated(r, {"READ"}).active \subseteq r.active \cup {"READ"} /\ Activated(r, {"READ"}) \in EventType
  BY DEF Activated, EventType, EvFlags
<1>2. PICK s \in EventType : /\ s = (IF "READ" \in r.flags /\ r.counter = 0 THEN Activated(r, {"READ"}) ELSE r)
                             /\ s.live = r.live /\ s.ev = r.ev /\ s.flags = r.flags /\ s.emee = r.emee
                             /\ s.readyFlags = r.readyFlags /\ s.active \subseteq r.active \cup {"READ"}
  BY <1>1
<1>q. QED  BY <1>2 DEF WriteProt, EventType

\* What ctl makes of an event.
LEMMA EventCtlKeeps ==
    ASSUME NEW r \in EventType, NEW f \in SUBSET EvFlags, NEW op \in Ops
    PROVE  LET s == EventCtl(r, op, f) IN
           /\ s.live = r.live /\ s.ev # "none" /\ s.emee /\ s.readyFlags = {} /\ s.counter = r.counter
           /\ s.active \subseteq r.active
           /\ op = "Del" => s.flags = r.flags
           /\ s.flags = r.flags \/ s.flags = f
<1>1. PICK s \in EventType : s = [Owned(r) EXCEPT !.readyFlags = {}, !.told = {}]
  BY DEF Owned, EventType
<1>2. /\ s.live = r.live /\ s.emee = TRUE /\ s.readyFlags = {} /\ s.counter = r.counter
      /\ s.active = r.active /\ s.flags = r.flags
  BY <1>1 DEF Owned, EventType
<1>3. PICK u \in EventType : u = WithEv(s, f)
  BY <1>1 DEF WithEv, EventType
<1>4. /\ u.live = r.live /\ u.emee = TRUE /\ u.readyFlags = {} /\ u.counter = r.counter
      /\ u.active \subseteq r.active /\ (u.flags = r.flags \/ u.flags = f)
  BY <1>2, <1>3 DEF WithEv, EventType
<1>q. QED  BY <1>1, <1>2, <1>3, <1>4 DEF EventCtl, EventType

-----------------------------------------------------------------------------
(* What the steps of a call change.                                        *)

\* A step of t only concerns the event it is about and what t has to do.
Local(t) ==
    LET e == Arg(t).e IN
    /\ UNCHANGED <<out, alive, pc, cb, batch, app>>
    /\ lock'["poller"] = lock["poller"] /\ lock'["handling"] = lock["handling"]
    /\ lock'["interest"] = lock["interest"]
    /\ \A x \in Events : x # e => /\ em'[x] = em[x]
                                  /\ x \in interest' <=> x \in interest
                                  /\ x \in ready' <=> x \in ready
    /\ \A u \in Threads : u # t => todo'[u] = todo[u]

\* The event keeps what the sets of the poller depend on.
KeepsEvent(e) ==
    /\ em'[e].live = em[e].live /\ em'[e].ev = em[e].ev /\ em'[e].flags = em[e].flags
    /\ em'[e].emee = em[e].emee /\ em'[e].readyFlags = em[e].readyFlags
    /\ em'[e].active \subseteq em[e].active \cup {"READ"}

\* The mutexes of events are not those of the poller.
LEMMA OtherLocks ==
    ASSUME NEW e \in Events
    PROVE  /\ e # "poller" /\ e # "handling" /\ e # "interest"
           /\ "poller" \in Locks /\ "handling" \in Locks /\ "interest" \in Locks
  BY DEF Events, Sfd, Efd, Tmr, Sock, Locks

\* writeProt changes the counter, and what is active, of one event.
LEMMA WriteEffect ==
    ASSUME TypeInv, NEW t \in Threads, Write(t)
    PROVE  LET e == Arg(t).e IN
           /\ Doing(t, "write") /\ Arg(t) \in StepType
           /\ TypeInv' /\ Local(t) /\ KeepsEvent(e) /\ UNCHANGED <<interest, ready, thrown>>
           /\ todo'[t] = Tail(todo[t])
<1> DEFINE e == Arg(t).e
<1>1. todo[t] # <<>> /\ Doing(t, "write") /\ Then(t, <<>>)
  BY DEF Write, Doing
<1>2. Arg(t) \in StepType /\ e \in Events
  BY <1>1, ArgType DEF StepType
<1> HIDE DEF e
<1>3. PICK r \in EventType : r = em[e]
  BY <1>2 DEF TypeInv, TypeOK
<1>4. WriteProt(r) \in EventType
  BY EventTypes, Names
<1>5. em' = [em EXCEPT ![e] = WriteProt(r)]
  BY <1>3 DEF Write, e
<1>6. /\ em'[e] = WriteProt(r) /\ em' \in [Events -> EventType]
      /\ \A x \in Events : x # e => em'[x] = em[x]
  BY <1>2, <1>4, <1>5 DEF TypeInv, TypeOK
<1>7. KeepsEvent(e)
  BY <1>3, <1>6, WriteProtKeeps DEF KeepsEvent
<1>8. /\ todo' \in [Threads -> Seq(StepType)] /\ DOMAIN todo' = Threads
      /\ todo'[t] = Tail(todo[t])
      /\ \A u \in Threads : u # t => todo'[u] = todo[u]
  BY <1>1, ThenNone
<1>9. Local(t)
  BY <1>6, <1>8 DEF Local, Write, e
<1>10. TypeInv'
  BY <1>6, <1>8 DEF TypeInv, TypeOK, Write
<1>q. QED  BY <1>1, <1>2, <1>7, <1>8, <1>9, <1>10 DEF Write, e

\* The counter is reset; the event is renewed only if it is read and has a value.
LEMMA TakeEffect ==
    ASSUME TypeInv, NEW t \in Threads, ResetCounterVal(t)
    PROVE  LET e == Arg(t).e IN
           /\ Doing(t, "take") /\ Arg(t) \in StepType
           /\ TypeInv' /\ Local(t) /\ KeepsEvent(e) /\ UNCHANGED <<interest, ready, thrown>>
           /\ em'[e].active = em[e].active /\ em'[e].counter = 0
           /\ \/ todo'[t] = Tail(todo[t])
              \/ /\ em[e].counter > 0 /\ em[e].ev # "none"
                 /\ First(todo'[t], "find", e, "") /\ Tail(todo'[t]) = Tail(todo[t])
<1> DEFINE e == Arg(t).e
<1>1. todo[t] # <<>> /\ Doing(t, "take")
  BY DEF ResetCounterVal, Doing
<1>2. Arg(t) \in StepType /\ e \in Events /\ Tail(todo[t]) \in Seq(StepType)
  BY <1>1, ArgType DEF StepType
<1> HIDE DEF e
<1>3. PICK r \in EventType : r = em[e]
  BY <1>2 DEF TypeInv, TypeOK
<1>4. em' = [em EXCEPT ![e].counter = 0]
  BY DEF ResetCounterVal, e
<1>5. [r EXCEPT !.counter = 0] \in EventType
  BY BoundsAssumption DEF EventType
<1>6. /\ em'[e] = [r EXCEPT !.counter = 0] /\ em' \in [Events -> EventType]
      /\ \A x \in Events : x # e => em'[x] = em[x]
  BY <1>2, <1>3, <1>4, <1>5 DEF TypeInv, TypeOK
<1>7. KeepsEvent(e) /\ em'[e].active = em[e].active /\ em'[e].counter = 0
  BY <1>3, <1>6 DEF KeepsEvent, EventType
<1>8. /\ todo' \in [Threads -> Seq(StepType)] /\ DOMAIN todo' = Threads
      /\ \A u \in Threads : u # t => todo'[u] = todo[u]
      /\ \/ todo'[t] = Tail(todo[t])
         \/ /\ em[e].counter > 0 /\ em[e].ev # "none"
            /\ First(todo'[t], "find", e, "") /\ Tail(todo'[t]) = Tail(todo[t])
  <2>1. CASE MustRenew(em[e])
    <3> DEFINE s == <<Step("find", e, "", {})>> \o Tail(todo[t])
    <3>1. s \in Seq(StepType) /\ First(s, "find", e, "") /\ Tail(s) = Tail(todo[t])
      BY <1>2, FrontStep, Names
    <3>2. Then(t, <<Step("find", e, "", {})>>)
      BY <2>1 DEF ResetCounterVal, e
    <3>3. /\ todo' \in [Threads -> Seq(StepType)] /\ DOMAIN todo' = Threads
          /\ todo'[t] = s
          /\ \A u \in Threads : u # t => todo'[u] = todo[u]
      BY <1>1, <3>1, <3>2, ThenSteps
    <3> HIDE DEF s
    <3>q. QED  BY <2>1, <3>1, <3>3 DEF MustRenew
  <2>2. CASE ~MustRenew(em[e])
    <3>1. Then(t, <<>>)
      BY <2>2 DEF ResetCounterVal, e
    <3>q. QED  BY <1>1, <3>1, ThenNone
  <2>q. QED  BY <2>1, <2>2
<1>9. /\ lock' \in [Locks -> Threads \cup {Free}]
      /\ lock'["poller"] = lock["poller"] /\ lock'["handling"] = lock["handling"] /\ lock'["interest"] = lock["interest"]
  <2>1. PICK v \in Threads \cup {Free} : lock' = [lock EXCEPT ![e] = v]
    BY DEF ResetCounterVal, e
  <2>2. lock \in [Locks -> Threads \cup {Free}]
    BY DEF TypeInv, TypeOK
  <2>q. QED  BY <1>2, <2>1, <2>2, OtherLocks
<1>10. Local(t)
  BY <1>6, <1>8, <1>9 DEF Local, ResetCounterVal, e
<1>11. TypeInv'
  BY <1>6, <1>8, <1>9 DEF TypeInv, TypeOK, ResetCounterVal
<1>q. QED  BY <1>1, <1>2, <1>7, <1>8, <1>10, <1>11 DEF ResetCounterVal, e

\* renewEv finds the event in interest_ or not, and changes nothing yet.
LEMMA FindEffect ==
    ASSUME TypeInv, NEW t \in Threads, RenewEv(t)
    PROVE  LET e == Arg(t).e
               rest == Tail(todo[t])
               s == todo'[t]
           IN
           /\ Doing(t, "find") /\ Arg(t) \in StepType
           /\ TypeInv' /\ Local(t) /\ UNCHANGED <<em, interest, ready, thrown>>
           /\ IF alive /\ em[e].emee /\ e \in interest
              THEN /\ \A sk, tm \in BOOLEAN : e = Efd /\ AfterEfd(rest, sk, tm) => EfdDel2(s, sk, tm)
                   /\ e = Tmr /\ TimeOff(rest) => TmrDel2(s)
              ELSE /\ \A sk, tm \in BOOLEAN : e = Efd /\ AfterEfd(rest, sk, tm) => EfdFree(s, sk, tm)
                   /\ e = Tmr /\ TimeOff(rest) => TmrFree(s)
                   /\ e = Tmr /\ TimeOn(rest) => AppFree(s)
<1> DEFINE e == Arg(t).e
           rest == Tail(todo[t])
           in == alive /\ em[e].emee /\ e \in interest
<1>1. todo[t] # <<>> /\ Doing(t, "find")
  BY DEF RenewEv, Doing
<1>2. Arg(t) \in StepType /\ e \in Events /\ rest \in Seq(StepType)
  BY <1>1, ArgType DEF StepType
<1> HIDE DEF e
<1>3. PICK f \in SUBSET EvFlags : f = em[e].flags
  BY <1>2 DEF TypeInv, TypeOK, EventType
<1>4. /\ todo' \in [Threads -> Seq(StepType)] /\ DOMAIN todo' = Threads
      /\ \A u \in Threads : u # t => todo'[u] = todo[u]
      /\ IF in
         THEN /\ \A sk, tm \in BOOLEAN : e = Efd /\ AfterEfd(rest, sk, tm) => EfdDel2(todo'[t], sk, tm)
              /\ e = Tmr /\ TimeOff(rest) => TmrDel2(todo'[t])
         ELSE /\ \A sk, tm \in BOOLEAN : e = Efd /\ AfterEfd(rest, sk, tm) => EfdFree(todo'[t], sk, tm)
              /\ e = Tmr /\ TimeOff(rest) => TmrFree(todo'[t])
              /\ e = Tmr /\ TimeOn(rest) => AppFree(todo'[t])
  <2>1. CASE in
    <3> DEFINE p == ((CtlEx("Del", e, {}) \o <<Step("free", e, "", {})>>) \o CtlEx("Add", e, f))
                      \o <<Step("unlock", e, "", {})>>
               s == p \o rest
    <3>1. /\ s \in Seq(StepType)
          /\ \A sk, tm \in BOOLEAN : e = Efd /\ AfterEfd(rest, sk, tm) => EfdDel2(s, sk, tm)
          /\ e = Tmr /\ TimeOff(rest) => TmrDel2(s)
      <4> HIDE DEF rest
      <4>q. QED  BY <1>2, RenewIn
    <3>2. Then(t, p)
      BY <2>1, <1>3 DEF RenewEv, e
    <3>3. /\ todo' \in [Threads -> Seq(StepType)] /\ DOMAIN todo' = Threads
          /\ todo'[t] = s
          /\ \A u \in Threads : u # t => todo'[u] = todo[u]
      <4> HIDE DEF p
      <4>q. QED  BY <1>1, <3>1, <3>2, ThenSteps
    <3> HIDE DEF s
    <3>q. QED  BY <2>1, <3>1, <3>3
  <2>2. CASE ~in
    <3> DEFINE p == ((<<>> \o <<Step("free", e, "", {})>>) \o <<>>) \o <<Step("unlock", e, "", {})>>
               s == p \o rest
    <3>1. /\ s \in Seq(StepType)
          /\ \A sk, tm \in BOOLEAN : e = Efd /\ AfterEfd(rest, sk, tm) => EfdFree(s, sk, tm)
          /\ e = Tmr /\ TimeOff(rest) => TmrFree(s)
          /\ e = Tmr /\ TimeOn(rest) => AppFree(s)
      <4> HIDE DEF rest
      <4>q. QED  BY <1>2, RenewOut
    <3>2. Then(t, p)
      BY <2>2 DEF RenewEv, e
    <3>3. /\ todo' \in [Threads -> Seq(StepType)] /\ DOMAIN todo' = Threads
          /\ todo'[t] = s
          /\ \A u \in Threads : u # t => todo'[u] = todo[u]
      <4> HIDE DEF p
      <4>q. QED  BY <1>1, <3>1, <3>2, ThenSteps
    <3> HIDE DEF s
    <3>q. QED  BY <2>2, <3>1, <3>3
  <2>q. QED  BY <2>1, <2>2
<1>5. Local(t)
  BY <1>4 DEF Local, RenewEv
<1>6. TypeInv'
  BY <1>4 DEF TypeInv, TypeOK, RenewEv
<1>q. QED  BY <1>1, <1>2, <1>4, <1>5, <1>6 DEF RenewEv, e

\* The event has no ev_ any more.
LEMMA FreeEffect ==
    ASSUME TypeInv, NEW t \in Threads, FreeEv(t)
    PROVE  LET e == Arg(t).e IN
           /\ Doing(t, "free") /\ Arg(t) \in StepType
           /\ TypeInv' /\ Local(t) /\ UNCHANGED <<interest, ready, thrown>>
           /\ em'[e].live = em[e].live /\ em'[e].flags = em[e].flags /\ em'[e].emee = em[e].emee
           /\ em'[e].counter = em[e].counter /\ em'[e].readyFlags = em[e].readyFlags
           /\ todo'[t] = Tail(todo[t])
<1> DEFINE e == Arg(t).e
<1>1. todo[t] # <<>> /\ Doing(t, "free") /\ Then(t, <<>>)
  BY DEF FreeEv, Doing
<1>2. Arg(t) \in StepType /\ e \in Events
  BY <1>1, ArgType DEF StepType
<1> HIDE DEF e
<1>3. PICK r \in EventType : r = em[e]
  BY <1>2 DEF TypeInv, TypeOK
<1>4. em' = [em EXCEPT ![e].ev = "none", ![e].active = {}]
  BY DEF FreeEv, e
<1>5. [r EXCEPT !.ev = "none", !.active = {}] \in EventType
  BY DEF EventType
<1>6. /\ em'[e] = [r EXCEPT !.ev = "none", !.active = {}] /\ em' \in [Events -> EventType]
      /\ \A x \in Events : x # e => em'[x] = em[x]
  BY <1>2, <1>3, <1>4, <1>5 DEF TypeInv, TypeOK, EventType
<1>7. /\ em'[e].live = em[e].live /\ em'[e].flags = em[e].flags /\ em'[e].emee = em[e].emee
      /\ em'[e].counter = em[e].counter /\ em'[e].readyFlags = em[e].readyFlags
  BY <1>3, <1>6 DEF EventType
<1>8. /\ todo' \in [Threads -> Seq(StepType)] /\ DOMAIN todo' = Threads
      /\ todo'[t] = Tail(todo[t])
      /\ \A u \in Threads : u # t => todo'[u] = todo[u]
  BY <1>1, ThenNone
<1>9. Local(t)
  BY <1>6, <1>8 DEF Local, FreeEv, e
<1>10. TypeInv'
  BY <1>6, <1>8 DEF TypeInv, TypeOK, FreeEv
<1>q. QED  BY <1>1, <1>2, <1>7, <1>8, <1>9, <1>10 DEF FreeEv, e

\* Only the counter's mutex is released.
LEMMA UnlockEffect ==
    ASSUME TypeInv, NEW t \in Threads, UnlockCounter(t)
    PROVE  /\ Doing(t, "unlock") /\ Arg(t) \in StepType
           /\ TypeInv' /\ Local(t) /\ UNCHANGED <<em, interest, ready, thrown>>
           /\ todo'[t] = Tail(todo[t])
<1> DEFINE e == Arg(t).e
<1>1. todo[t] # <<>> /\ Doing(t, "unlock") /\ Then(t, <<>>)
  BY DEF UnlockCounter, Doing
<1>2. Arg(t) \in StepType /\ e \in Events
  BY <1>1, ArgType DEF StepType
<1> HIDE DEF e
<1>3. /\ lock' \in [Locks -> Threads \cup {Free}]
      /\ lock'["poller"] = lock["poller"] /\ lock'["handling"] = lock["handling"] /\ lock'["interest"] = lock["interest"]
  <2>1. lock' = [lock EXCEPT ![e] = Free]
    BY DEF UnlockCounter, e
  <2>2. lock \in [Locks -> Threads \cup {Free}]
    BY DEF TypeInv, TypeOK
  <2>q. QED  BY <1>2, <2>1, <2>2, OtherLocks
<1>8. /\ todo' \in [Threads -> Seq(StepType)] /\ DOMAIN todo' = Threads
      /\ todo'[t] = Tail(todo[t])
      /\ \A u \in Threads : u # t => todo'[u] = todo[u]
  BY <1>1, ThenNone
<1>9. Local(t)
  BY <1>3, <1>8 DEF Local, UnlockCounter
<1>10. TypeInv'
  BY <1>3, <1>8 DEF TypeInv, TypeOK, UnlockCounter
<1>q. QED  BY <1>1, <1>2, <1>8, <1>9, <1>10 DEF UnlockCounter

\* settime arms or disarms the event, and calls ctlEx only for an event that has a
\* poller; an event that has none, or is disarmed without an ev_, is left at that.
LEMMA TimeEffect ==
    ASSUME TypeInv, NEW t \in Threads, SettimeStep(t)
    PROVE  LET e == Arg(t).e
               s == todo'[t]
               on == Arg(t).op = "on"
               n == Tail(todo[t])
           IN
           /\ Doing(t, "time") /\ Arg(t) \in StepType
           /\ TypeInv' /\ Local(t) /\ KeepsEvent(e) /\ UNCHANGED <<interest, ready, thrown>>
           /\ em'[e].active = em[e].active /\ em'[e].counter = em[e].counter
           /\ e = Tmr /\ on /\ em[e].emee =>
                First(s, "ctl", Tmr, "Add") /\ First(Tail(s), "set", Tmr, "Add")
                /\ First(Tail(Tail(s)), "mark", Tmr, "artificial") /\ Tail(Tail(Tail(s))) = n
           /\ e = Tmr /\ ~on /\ em[e].emee /\ em[e].ev # "none" =>
                First(s, "ctl", Tmr, "Del") /\ First(Tail(s), "set", Tmr, "Del")
                /\ First(Tail(Tail(s)), "mark", Tmr, "real") /\ Tail(Tail(Tail(s))) = n
           /\ ~(on /\ em[e].emee) /\ ~(~on /\ em[e].emee /\ em[e].ev # "none") => s = n
<1> DEFINE e == Arg(t).e
           n == Tail(todo[t])
           on == Arg(t).op = "on"
<1>1. todo[t] # <<>> /\ Doing(t, "time")
  BY DEF SettimeStep, Doing
<1>2. Arg(t) \in StepType /\ e \in Events /\ n \in Seq(StepType)
  BY <1>1, ArgType DEF StepType
<1> HIDE DEF e
<1>3. PICK r \in EventType : r = em[e]
  BY <1>2 DEF TypeInv, TypeOK
<1>31. on \in BOOLEAN
  OBVIOUS
<1>4. em' = [em EXCEPT ![e].tv = on, ![e].artificial = @ /\ ~(on /\ ~em[e].emee)]
  BY DEF SettimeStep, e
<1> HIDE DEF on
<1>5. [r EXCEPT !.tv = on, !.artificial = @ /\ ~(on /\ ~r.emee)] \in EventType
  BY <1>31 DEF EventType
<1>6. /\ em'[e] = [r EXCEPT !.tv = on, !.artificial = @ /\ ~(on /\ ~r.emee)] /\ em' \in [Events -> EventType]
      /\ \A x \in Events : x # e => em'[x] = em[x]
  BY <1>2, <1>3, <1>4, <1>5 DEF TypeInv, TypeOK, EventType
<1>7. KeepsEvent(e) /\ em'[e].active = em[e].active /\ em'[e].counter = em[e].counter
  BY <1>3, <1>6 DEF KeepsEvent, EventType
<1>8. PICK f \in SUBSET EvFlags : f = em[e].flags
  BY <1>2 DEF TypeInv, TypeOK, EventType
<1>9. /\ todo' \in [Threads -> Seq(StepType)] /\ DOMAIN todo' = Threads
      /\ \A u \in Threads : u # t => todo'[u] = todo[u]
      /\ e = Tmr /\ on /\ em[e].emee =>
           First(todo'[t], "ctl", Tmr, "Add") /\ First(Tail(todo'[t]), "set", Tmr, "Add")
           /\ First(Tail(Tail(todo'[t])), "mark", Tmr, "artificial") /\ Tail(Tail(Tail(todo'[t]))) = n
      /\ e = Tmr /\ ~on /\ em[e].emee /\ em[e].ev # "none" =>
           First(todo'[t], "ctl", Tmr, "Del") /\ First(Tail(todo'[t]), "set", Tmr, "Del")
           /\ First(Tail(Tail(todo'[t])), "mark", Tmr, "real") /\ Tail(Tail(Tail(todo'[t]))) = n
      /\ ~(on /\ em[e].emee) /\ ~(~on /\ em[e].emee /\ em[e].ev # "none") => todo'[t] = n
  <2>1. CASE on /\ em[e].emee
    <3> DEFINE p == CtlEx("Add", e, f) \o <<Step("mark", e, "artificial", {})>>
               s == p \o n
    <3>1. Then(t, p)
      BY <2>1, <1>8 DEF SettimeStep, e, on
    <3>2. /\ s \in Seq(StepType)
          /\ e = Tmr => /\ First(s, "ctl", Tmr, "Add") /\ First(Tail(s), "set", Tmr, "Add")
                        /\ First(Tail(Tail(s)), "mark", Tmr, "artificial") /\ Tail(Tail(Tail(s))) = n
      <4> HIDE DEF n
      <4>1. ASSUME e = Tmr
            PROVE  /\ First(s, "ctl", Tmr, "Add") /\ First(Tail(s), "set", Tmr, "Add")
                   /\ First(Tail(Tail(s)), "mark", Tmr, "artificial") /\ Tail(Tail(Tail(s))) = n
        <5> DEFINE z == (CtlEx("Add", Tmr, f) \o <<Step("mark", Tmr, "artificial", {})>>) \o n
        <5>1. "Add" \in Ops /\ "artificial" \in Ops /\ f \in SUBSET EvFlags
          BY Names
        <5>2. /\ First(z, "ctl", Tmr, "Add") /\ First(Tail(z), "set", Tmr, "Add")
              /\ First(Tail(Tail(z)), "mark", Tmr, "artificial") /\ Tail(Tail(Tail(z))) = n
          BY ONLY <1>2, <5>1, TimeSteps
        <5>3. s = z
          BY <4>1
        <5> HIDE DEF z, s
        <5>q. QED  BY <5>2, <5>3
      <4>2. s \in Seq(StepType)
        <5> DEFINE a == Step("ctl", e, "Add", f)
                   b == Step("set", e, "Add", f)
                   c == Step("mark", e, "artificial", {})
        <5>1. a \in StepType /\ b \in StepType /\ c \in StepType
          BY <1>2, StepIsStep, Names
        <5>2. p = <<a, b>> \o <<c>>
          BY DEF CtlEx
        <5> HIDE DEF a, b, c, p
        <5>3. <<a, b>> \in Seq(StepType) /\ <<c>> \in Seq(StepType)
          BY <5>1, StepsAreSeqs
        <5>q. QED  BY <1>2, <5>2, <5>3
      <4>q. QED  BY <4>1, <4>2
    <3>3. /\ todo' \in [Threads -> Seq(StepType)] /\ DOMAIN todo' = Threads
          /\ todo'[t] = s
          /\ \A u \in Threads : u # t => todo'[u] = todo[u]
      <4> HIDE DEF p
      <4>q. QED  BY <1>1, <3>1, <3>2, ThenSteps
    <3> HIDE DEF s
    <3>q. QED  BY <2>1, <3>2, <3>3
  <2>2. CASE ~on /\ em[e].emee /\ em[e].ev # "none"
    <3> DEFINE p == CtlEx("Del", e, {}) \o <<Step("mark", e, "real", {})>>
               s == p \o n
    <3>1. Then(t, p)
      BY <2>2 DEF SettimeStep, e, on
    <3>2. /\ s \in Seq(StepType)
          /\ e = Tmr => /\ First(s, "ctl", Tmr, "Del") /\ First(Tail(s), "set", Tmr, "Del")
                        /\ First(Tail(Tail(s)), "mark", Tmr, "real") /\ Tail(Tail(Tail(s))) = n
      <4> HIDE DEF n
      <4>1. ASSUME e = Tmr
            PROVE  /\ First(s, "ctl", Tmr, "Del") /\ First(Tail(s), "set", Tmr, "Del")
                   /\ First(Tail(Tail(s)), "mark", Tmr, "real") /\ Tail(Tail(Tail(s))) = n
        <5> DEFINE z == (CtlEx("Del", Tmr, {}) \o <<Step("mark", Tmr, "real", {})>>) \o n
        <5>1. "Del" \in Ops /\ "real" \in Ops /\ {} \in SUBSET EvFlags
          BY Names
        <5>2. /\ First(z, "ctl", Tmr, "Del") /\ First(Tail(z), "set", Tmr, "Del")
              /\ First(Tail(Tail(z)), "mark", Tmr, "real") /\ Tail(Tail(Tail(z))) = n
          BY ONLY <1>2, <5>1, TimeSteps
        <5>3. s = z
          BY <4>1
        <5> HIDE DEF z, s
        <5>q. QED  BY <5>2, <5>3
      <4>2. s \in Seq(StepType)
        <5> DEFINE a == Step("ctl", e, "Del", {})
                   b == Step("set", e, "Del", {})
                   c == Step("mark", e, "real", {})
        <5>1. a \in StepType /\ b \in StepType /\ c \in StepType
          BY <1>2, StepIsStep, Names
        <5>2. p = <<a, b>> \o <<c>>
          BY DEF CtlEx
        <5> HIDE DEF a, b, c, p
        <5>3. <<a, b>> \in Seq(StepType) /\ <<c>> \in Seq(StepType)
          BY <5>1, StepsAreSeqs
        <5>q. QED  BY <1>2, <5>2, <5>3
      <4>q. QED  BY <4>1, <4>2
    <3>3. /\ todo' \in [Threads -> Seq(StepType)] /\ DOMAIN todo' = Threads
          /\ todo'[t] = s
          /\ \A u \in Threads : u # t => todo'[u] = todo[u]
      <4> HIDE DEF p
      <4>q. QED  BY <1>1, <3>1, <3>2, ThenSteps
    <3> HIDE DEF s
    <3>q. QED  BY <2>2, <3>2, <3>3
  <2>3. CASE ~(on /\ em[e].emee) /\ ~(~on /\ em[e].emee /\ em[e].ev # "none")
    <3>1. Then(t, <<>>)
      BY <2>3 DEF SettimeStep, e, on
    <3>q. QED  BY <1>1, <2>3, <3>1, ThenNone
  <2>q. QED  BY <2>1, <2>2, <2>3
<1>10. Local(t)
  BY <1>6, <1>9 DEF Local, SettimeStep, e
<1>11. TypeInv'
  BY <1>6, <1>9 DEF TypeInv, TypeOK, SettimeStep
<1>q. QED  BY <1>1, <1>2, <1>7, <1>9, <1>10, <1>11 DEF SettimeStep, e, on

\* Only add_was_artificial_ changes.
LEMMA MarkEffect ==
    ASSUME TypeInv, NEW t \in Threads, MarkArtificial(t)
    PROVE  LET e == Arg(t).e IN
           /\ Doing(t, "mark") /\ Arg(t) \in StepType
           /\ TypeInv' /\ Local(t) /\ KeepsEvent(e) /\ UNCHANGED <<interest, ready, thrown>>
           /\ em'[e].active = em[e].active /\ em'[e].counter = em[e].counter
           /\ todo'[t] = Tail(todo[t])
<1> DEFINE e == Arg(t).e
<1>1. todo[t] # <<>> /\ Doing(t, "mark") /\ Then(t, <<>>)
  BY DEF MarkArtificial, Doing
<1>2. Arg(t) \in StepType /\ e \in Events
  BY <1>1, ArgType DEF StepType
<1> HIDE DEF e
<1>3. PICK r \in EventType : r = em[e]
  BY <1>2 DEF TypeInv, TypeOK
<1>4. PICK v \in BOOLEAN : em' = [em EXCEPT ![e].artificial = v]
  BY DEF MarkArtificial, e
<1>5. [r EXCEPT !.artificial = v] \in EventType
  BY DEF EventType
<1>6. /\ em'[e] = [r EXCEPT !.artificial = v] /\ em' \in [Events -> EventType]
      /\ \A x \in Events : x # e => em'[x] = em[x]
  BY <1>2, <1>3, <1>4, <1>5 DEF TypeInv, TypeOK
<1>7. KeepsEvent(e) /\ em'[e].active = em[e].active /\ em'[e].counter = em[e].counter
  BY <1>3, <1>6 DEF KeepsEvent, EventType
<1>8. /\ todo' \in [Threads -> Seq(StepType)] /\ DOMAIN todo' = Threads
      /\ todo'[t] = Tail(todo[t])
      /\ \A u \in Threads : u # t => todo'[u] = todo[u]
  BY <1>1, ThenNone
<1>9. Local(t)
  BY <1>6, <1>8 DEF Local, MarkArtificial, e
<1>10. TypeInv'
  BY <1>6, <1>8 DEF TypeInv, TypeOK, MarkArtificial
<1>q. QED  BY <1>1, <1>2, <1>7, <1>8, <1>9, <1>10 DEF MarkArtificial, e

\* ... of a ctl that does not fail.
LEMMA CtlEffect ==
    ASSUME TypeInv, NEW t \in Threads, CtlStep(t), ~AlreadyThere(Arg(t).e, Arg(t).op)
    PROVE  LET e == Arg(t).e IN
           /\ Doing(t, "ctl") /\ Arg(t) \in StepType
           /\ TypeInv' /\ Local(t) /\ UNCHANGED <<interest, ready, thrown>>
           /\ em'[e].live = em[e].live /\ em'[e].ev # "none" /\ em'[e].emee /\ em'[e].readyFlags = {}
           /\ em'[e].counter = em[e].counter /\ em'[e].active \subseteq em[e].active
           /\ Arg(t).op = "Del" => em'[e].flags = em[e].flags
           /\ em'[e].flags = em[e].flags \/ em'[e].flags = Arg(t).flags
           /\ todo'[t] = Tail(todo[t])
<1> DEFINE e == Arg(t).e
           op == Arg(t).op
           f == Arg(t).flags
<1>1. todo[t] # <<>> /\ Doing(t, "ctl") /\ Then(t, <<>>)
  BY DEF CtlStep, Doing
<1>2. Arg(t) \in StepType /\ e \in Events /\ op \in Ops /\ f \in SUBSET EvFlags
  BY <1>1, ArgType DEF StepType
<1> HIDE DEF e, op, f
<1>3. PICK r \in EventType : r = em[e]
  BY <1>2 DEF TypeInv, TypeOK
<1>4. em' = [em EXCEPT ![e] = EventCtl(r, op, f)]
  BY <1>3 DEF CtlStep, e, op, f
<1>5. EventCtl(r, op, f) \in EventType
  BY <1>2, EventTypes
<1>6. /\ em'[e] = EventCtl(r, op, f) /\ em' \in [Events -> EventType]
      /\ \A x \in Events : x # e => em'[x] = em[x]
  BY <1>2, <1>3, <1>4, <1>5 DEF TypeInv, TypeOK
<1>7. /\ em'[e].live = em[e].live /\ em'[e].ev # "none" /\ em'[e].emee /\ em'[e].readyFlags = {}
      /\ em'[e].counter = em[e].counter /\ em'[e].active \subseteq em[e].active
      /\ op = "Del" => em'[e].flags = em[e].flags
      /\ em'[e].flags = em[e].flags \/ em'[e].flags = f
  <2> DEFINE q == EventCtl(r, op, f)
  <2>1. /\ q.live = r.live /\ q.ev # "none" /\ q.emee /\ q.readyFlags = {}
        /\ q.counter = r.counter /\ q.active \subseteq r.active
        /\ op = "Del" => q.flags = r.flags
        /\ q.flags = r.flags \/ q.flags = f
    BY <1>2, EventCtlKeeps
  <2> HIDE DEF q
  <2>2. em'[e] = q
    BY <1>6 DEF q
  <2>q. QED  BY <1>3, <2>1, <2>2
<1>8. /\ todo' \in [Threads -> Seq(StepType)] /\ DOMAIN todo' = Threads
      /\ todo'[t] = Tail(todo[t])
      /\ \A u \in Threads : u # t => todo'[u] = todo[u]
  BY <1>1, ThenNone
<1>9. Local(t) /\ UNCHANGED <<interest, ready, thrown>>
  BY <1>6, <1>8 DEF Local, CtlStep, e
<1>10. TypeInv'
  BY <1>6, <1>8, <1>9 DEF TypeInv, TypeOK, CtlStep
<1>q. QED  BY <1>1, <1>2, <1>7, <1>8, <1>9, <1>10 DEF e, op, f

\* An event may become active for READ, and nothing else about it changes.
LEMMA ActivateEffect ==
    ASSUME TypeInv, NEW t \in Threads, CtrActivate(t)
    PROVE  LET e == Arg(t).e IN
           /\ Doing(t, "activate") /\ Arg(t) \in StepType
           /\ TypeInv' /\ Local(t) /\ KeepsEvent(e) /\ UNCHANGED <<interest, ready, thrown>>
           /\ e = Sock => em'[e] = em[e]
           /\ em'[e].counter = em[e].counter
           /\ todo'[t] = Tail(todo[t])
<1> DEFINE e == Arg(t).e
<1>1. todo[t] # <<>> /\ Doing(t, "activate") /\ Then(t, <<>>)
  BY DEF CtrActivate, Doing
<1>2. Arg(t) \in StepType /\ e \in Events
  BY <1>1, ArgType DEF StepType
<1> HIDE DEF e
<1>3. PICK r \in EventType : r = em[e]
  BY <1>2 DEF TypeInv, TypeOK
<1>4. \/ em' = em
      \/ em' = [em EXCEPT ![e] = Activated(r, {"READ"})] /\ e # Sock
  BY <1>3 DEF CtrActivate, e
<1>5. /\ Activated(r, {"READ"}) \in EventType
      /\ Activated(r, {"READ"}).live = r.live /\ Activated(r, {"READ"}).ev = r.ev
      /\ Activated(r, {"READ"}).flags = r.flags /\ Activated(r, {"READ"}).emee = r.emee
      /\ Activated(r, {"READ"}).readyFlags = r.readyFlags /\ Activated(r, {"READ"}).counter = r.counter
      /\ Activated(r, {"READ"}).active \subseteq r.active \cup {"READ"}
  BY DEF Activated, EventType, EvFlags
<1>6. /\ em'[e] = r \/ (em'[e] = Activated(r, {"READ"}) /\ e # Sock)
      /\ em' \in [Events -> EventType]
      /\ \A x \in Events : x # e => em'[x] = em[x]
  <2>1. em \in [Events -> EventType]
    BY DEF TypeInv, TypeOK
  <2>2. CASE em' = em
    BY <1>3, <2>1, <2>2
  <2>3. CASE em' = [em EXCEPT ![e] = Activated(r, {"READ"})] /\ e # Sock
    BY <1>2, <1>5, <2>1, <2>3
  <2>q. QED  BY <1>4, <2>2, <2>3
<1>7. KeepsEvent(e) /\ em'[e].counter = em[e].counter /\ (e = Sock => em'[e] = em[e])
  BY <1>3, <1>5, <1>6 DEF KeepsEvent
<1>8. /\ todo' \in [Threads -> Seq(StepType)] /\ DOMAIN todo' = Threads
      /\ todo'[t] = Tail(todo[t])
      /\ \A u \in Threads : u # t => todo'[u] = todo[u]
  BY <1>1, ThenNone
<1>9. Local(t) /\ UNCHANGED <<interest, ready, thrown>>
  BY <1>6, <1>8 DEF Local, CtrActivate, e
<1>10. TypeInv'
  BY <1>6, <1>8, <1>9 DEF TypeInv, TypeOK, CtrActivate
<1>q. QED  BY <1>1, <1>2, <1>7, <1>8, <1>9, <1>10 DEF e

\* interest_ and ready_ change for one event, under interest_mutex_.
LEMMA SetEffect ==
    ASSUME TypeInv, NEW t \in Threads, InterestStep(t)
    PROVE  LET e == Arg(t).e IN
           /\ Doing(t, "set") /\ Arg(t) \in StepType
           /\ TypeInv' /\ Local(t) /\ UNCHANGED <<em, thrown>> /\ lock["interest"] = Free
           /\ interest' = IF Arg(t).op = "Del" THEN interest \ {e} ELSE interest \cup {e}
           /\ ready' = IF Arg(t).op = "Del" THEN ready \ {e} ELSE ready
           /\ todo'[t] = Tail(todo[t])
<1> DEFINE e == Arg(t).e
<1>1. todo[t] # <<>> /\ Doing(t, "set") /\ Then(t, <<>>)
  BY DEF InterestStep, Doing
<1>2. Arg(t) \in StepType /\ e \in Events
  BY <1>1, ArgType DEF StepType
<1>3. /\ interest' = IF Arg(t).op = "Del" THEN interest \ {e} ELSE interest \cup {e}
      /\ ready' = IF Arg(t).op = "Del" THEN ready \ {e} ELSE ready
      /\ lock["interest"] = Free /\ UNCHANGED <<em, out, alive, lock, pc, cb, batch, app, thrown>>
  BY DEF InterestStep, Unlocked
<1> HIDE DEF e
<1>8. /\ todo' \in [Threads -> Seq(StepType)] /\ DOMAIN todo' = Threads
      /\ todo'[t] = Tail(todo[t])
      /\ \A u \in Threads : u # t => todo'[u] = todo[u]
  BY <1>1, ThenNone
<1>9. Local(t)
  BY <1>3, <1>8 DEF Local, e
<1>10. TypeInv'
  BY <1>2, <1>3, <1>8 DEF TypeInv, TypeOK
<1>q. QED  BY <1>1, <1>2, <1>3, <1>8, <1>9, <1>10 DEF e

\* closeEvent takes the event out of the poller's sets if it is in interest_, and
\* deletes it.
LEMMA CloseEffect ==
    ASSUME TypeInv, NEW t \in Threads, CloseStep(t)
    PROVE  LET e == Arg(t).e
               known == alive /\ em[e].emee /\ e \in interest
           IN
           /\ Doing(t, "close") /\ Arg(t) \in StepType
           /\ TypeInv' /\ Local(t) /\ UNCHANGED thrown /\ lock["interest"] = Free
           /\ ~em'[e].live /\ em'[e].ev = "none" /\ em'[e].active = {} /\ em'[e].flags = em[e].flags
           /\ em'[e].emee = em[e].emee /\ em'[e].readyFlags = em[e].readyFlags
           /\ em'[e].counter = em[e].counter
           /\ interest' = IF known THEN interest \ {e} ELSE interest
           /\ ready' = IF known THEN ready \ {e} ELSE ready
           /\ todo'[t] = Tail(todo[t])
<1> DEFINE e == Arg(t).e
<1>1. todo[t] # <<>> /\ Doing(t, "close") /\ Then(t, <<>>)
  BY DEF CloseStep, Doing
<1>2. Arg(t) \in StepType /\ e \in Events
  BY <1>1, ArgType DEF StepType
<1>3. /\ interest' = IF alive /\ em[e].emee /\ e \in interest THEN interest \ {e} ELSE interest
      /\ ready' = IF alive /\ em[e].emee /\ e \in interest THEN ready \ {e} ELSE ready
      /\ lock["interest"] = Free /\ UNCHANGED <<out, alive, lock, pc, cb, batch, app, thrown>>
  BY DEF CloseStep, Unlocked
<1> HIDE DEF e
<1>4. PICK r \in EventType : r = em[e]
  BY <1>2 DEF TypeInv, TypeOK
<1>41. PICK q \in EventType : q = [ClosedEv(r) EXCEPT !.live = FALSE]
  BY DEF ClosedEv, EventType
<1>5. em' = [em EXCEPT ![e] = q]
  BY <1>4, <1>41 DEF CloseStep, e
<1>6. /\ em'[e] = q /\ em' \in [Events -> EventType]
      /\ \A x \in Events : x # e => em'[x] = em[x]
  BY <1>2, <1>5 DEF TypeInv, TypeOK
<1>7. /\ q.live = FALSE /\ q.ev = "none" /\ q.active = {} /\ q.flags = r.flags /\ q.emee = r.emee
      /\ q.readyFlags = r.readyFlags /\ q.counter = r.counter
  BY <1>41 DEF ClosedEv, EventType
<1>8. /\ todo' \in [Threads -> Seq(StepType)] /\ DOMAIN todo' = Threads
      /\ todo'[t] = Tail(todo[t])
      /\ \A u \in Threads : u # t => todo'[u] = todo[u]
  BY <1>1, ThenNone
<1>9. Local(t)
  BY <1>3, <1>6, <1>8 DEF Local, e
<1>10. TypeInv'
  BY <1>2, <1>3, <1>6, <1>8 DEF TypeInv, TypeOK
<1>q. QED  BY <1>1, <1>2, <1>3, <1>4, <1>6, <1>7, <1>8, <1>9, <1>10 DEF e

-----------------------------------------------------------------------------
(* The worker's calls.                                                     *)

\* What holds while the worker reads the queue, or uses the timer.
QueueFacts(sk, tm) ==
    /\ sk => Sock \notin interest /\ app.conn # "new"
    /\ tm => TmrAhead
TmrFacts == app.entry /\ app.registered /\ TmrKept

\* The steps of HandleQueue, and those of Settle, that are not between the
\* removal of the event from interest_ and its return.
LEMMA QueueApart ==
    ASSUME NEW s, NEW sk \in BOOLEAN, NEW tm \in BOOLEAN
    PROVE  /\ EfdTake(s, sk, tm) \/ EfdFind(s, sk, tm) \/ EfdDel2(s, sk, tm) \/ EfdDel1(s, sk, tm)
              \/ EfdUnlock(s, sk, tm) \/ AfterEfd(s, sk, tm) => ~EfdOut(s, sk, tm) /\ ~EfdAdd1(s, sk, tm)
           /\ EfdFree(s, sk, tm) \/ EfdAdd2(s, sk, tm) => ~EfdAdd1(s, sk, tm)
  BY Constants DEF EfdTake, EfdFind, EfdDel2, EfdDel1, EfdUnlock, AfterEfd, AfterSock, SockAdd4, TmrAdd4,
     EfdOut, EfdFree, EfdAdd2, EfdAdd1, First

\* The same for Settle.
LEMMA SettleApart ==
    ASSUME NEW s
    PROVE  /\ TmrTake(s) \/ TmrFind(s) \/ TmrDel2(s) \/ TmrDel1(s) \/ TmrUnlock(s) \/ TimeOff(s) \/ Off3(s) \/ Off2(s)
                => ~SettleOut(s) /\ ~TmrBack1(s)
           /\ TmrFree(s) \/ TmrBack2(s) \/ Off1(s) \/ Release(s) => ~TmrBack1(s)
  BY DEF TmrTake, TmrFind, TmrDel2, TmrDel1, TmrUnlock, TimeOff, Off3, Off2, SettleOut, TmrFree, TmrBack2, TmrBack1,
     Off1, Release, First

\* Which steps the worker may be doing, and what it then knows.
LEMMA WorkerShape ==
    ASSUME WorkerInv, todo[Worker] # <<>>
    PROVE  LET s == todo[Worker]
               do == Head(s).do
           IN
           /\ do \notin {"write", "close", "post", "handled", "detached"}
           /\ do = "take" => \/ \E sk, tm \in BOOLEAN : EfdTake(s, sk, tm) /\ QueueFacts(sk, tm)
                             \/ TmrTake(s) /\ TmrFacts
           /\ do = "find" => \/ \E sk, tm \in BOOLEAN : EfdFind(s, sk, tm) /\ QueueFacts(sk, tm)
                             \/ TmrFind(s) /\ TmrFacts
           /\ do = "free" => \/ \E sk, tm \in BOOLEAN : EfdFree(s, sk, tm) /\ QueueFacts(sk, tm) /\ Efd \notin interest
                             \/ TmrFree(s) /\ TmrFacts /\ Tmr \notin interest
           /\ do = "unlock" => \/ \E sk, tm \in BOOLEAN : EfdUnlock(s, sk, tm) /\ QueueFacts(sk, tm)
                               \/ TmrUnlock(s) /\ TmrFacts
           /\ do = "time" => TimeOff(s) /\ TmrFacts
           /\ do = "release" => Release(s) /\ TmrFacts /\ Tmr \notin interest
           /\ do = "mark" => \/ \E tm \in BOOLEAN : SockAdd1(s, tm) /\ (tm => TmrAhead)
                             \/ TmrAdd1(s) \/ SockMod1(s)
                             \/ Off1(s) /\ TmrFacts /\ Tmr \notin interest
           /\ do = "activate" => \/ \E tm \in BOOLEAN : /\ SockAdd3(s, tm) /\ (tm => TmrAhead) /\ app.conn # "new"
                                                        /\ em[Sock].emee /\ em[Sock].ev # "none"
                                 \/ TmrAdd3(s) /\ TmrFacts /\ Tmr \notin interest /\ em[Tmr].emee /\ em[Tmr].ev # "none"
                                 \/ SockMod3(s) /\ app.conn = "up" /\ em[Sock].emee /\ em[Sock].ev # "none"
           /\ do = "ctl" => \/ \E sk, tm \in BOOLEAN : EfdDel2(s, sk, tm) /\ QueueFacts(sk, tm)
                            \/ \E sk, tm \in BOOLEAN : EfdAdd2(s, sk, tm) /\ QueueFacts(sk, tm) /\ Efd \notin interest
                            \/ \E tm \in BOOLEAN : SockAdd4(s, tm) /\ QueueFacts(TRUE, tm)
                            \/ TmrAdd4(s) /\ TmrAhead
                            \/ SockMod4(s) /\ app.conn = "up"
                            \/ (TmrDel2(s) \/ Off3(s)) /\ TmrFacts
                            \/ TmrBack2(s) /\ TmrFacts /\ Tmr \notin interest
           /\ do = "set" => \/ \E sk, tm \in BOOLEAN : EfdDel1(s, sk, tm) /\ QueueFacts(sk, tm)
                            \/ \E sk, tm \in BOOLEAN : EfdAdd1(s, sk, tm) /\ QueueFacts(sk, tm) /\ em[Efd].emee /\ em[Efd].ev # "none"
                            \/ \E tm \in BOOLEAN : /\ SockAdd2(s, tm) /\ (tm => TmrAhead) /\ app.conn # "new"
                                                   /\ em[Sock].emee /\ em[Sock].ev # "none"
                            \/ TmrAdd2(s) /\ TmrFacts /\ em[Tmr].emee /\ em[Tmr].ev # "none"
                            \/ SockMod2(s) /\ app.conn = "up" /\ em[Sock].emee /\ em[Sock].ev # "none"
                            \/ (TmrDel1(s) \/ Off2(s)) /\ TmrFacts
                            \/ TmrBack1(s) /\ TmrFacts /\ em[Tmr].emee /\ em[Tmr].ev # "none"
<1> DEFINE s == todo[Worker]
           do == Head(s).do
<1>1. ASSUME NEW sk \in BOOLEAN, NEW tm \in BOOLEAN, OfQueue(s, sk, tm), tm => TmrAhead
      PROVE  /\ do \in {"take", "find", "free", "unlock", "ctl", "set"}
             /\ do = "take" => EfdTake(s, sk, tm)
             /\ do = "find" => EfdFind(s, sk, tm)
             /\ do = "free" => EfdFree(s, sk, tm) /\ Efd \notin interest
             /\ do = "unlock" => EfdUnlock(s, sk, tm)
             /\ do = "ctl" => \/ EfdDel2(s, sk, tm) \/ (EfdAdd2(s, sk, tm) /\ Efd \notin interest)
                              \/ (SockAdd4(s, tm) /\ sk) \/ (TmrAdd4(s) /\ tm)
             /\ do = "set" => EfdDel1(s, sk, tm) \/ (EfdAdd1(s, sk, tm) /\ em[Efd].emee /\ em[Efd].ev # "none")
             /\ QueueFacts(sk, tm)
  BY <1>1 DEF OfQueue, Reading, EfdOut, EfdTake, EfdFind, EfdDel2, EfdDel1, EfdUnlock, AfterEfd, AfterSock, SockAdd4, TmrAdd4,
     EfdOut, EfdFree, EfdAdd2, EfdAdd1, First, QueueFacts
<1>2. ASSUME NEW tm \in BOOLEAN, OfSock(s, tm)
      PROVE  /\ do \in {"mark", "activate", "set"} /\ app.conn # "new"
             /\ do = "mark" => SockAdd1(s, tm)
             /\ do = "activate" => SockAdd3(s, tm) /\ em[Sock].emee /\ em[Sock].ev # "none"
             /\ do = "set" => SockAdd2(s, tm) /\ em[Sock].emee /\ em[Sock].ev # "none"
  BY <1>2 DEF OfSock, SockAdding, SockAdd3, SockAdd2, SockAdd1, First
<1>3. ASSUME OfTmr(s)
      PROVE  /\ do \in {"mark", "activate", "set"} /\ TmrFacts
             /\ do = "mark" => TmrAdd1(s)
             /\ do = "activate" => TmrAdd3(s) /\ Tmr \notin interest /\ em[Tmr].emee /\ em[Tmr].ev # "none"
             /\ do = "set" => TmrAdd2(s) /\ em[Tmr].emee /\ em[Tmr].ev # "none"
  BY <1>3 DEF OfTmr, TmrAdding, TmrAdd3, TmrAdd2, TmrAdd1, First, TmrFacts
<1>4. ASSUME OfMod(s)
      PROVE  /\ do \in {"mark", "activate", "set", "ctl"} /\ app.conn = "up"
             /\ do = "mark" => SockMod1(s)
             /\ do = "activate" => SockMod3(s) /\ em[Sock].emee /\ em[Sock].ev # "none"
             /\ do = "set" => SockMod2(s) /\ em[Sock].emee /\ em[Sock].ev # "none"
             /\ do = "ctl" => SockMod4(s)
  BY <1>4 DEF OfMod, SockMoving, SockMod4, SockMod3, SockMod2, SockMod1, First
<1>5. ASSUME OfSettle(s)
      PROVE  /\ do \in {"take", "find", "free", "unlock", "time", "release", "mark", "ctl", "set"} /\ TmrFacts
             /\ do = "take" => TmrTake(s)
             /\ do = "find" => TmrFind(s)
             /\ do = "free" => TmrFree(s) /\ Tmr \notin interest
             /\ do = "unlock" => TmrUnlock(s)
             /\ do = "time" => TimeOff(s)
             /\ do = "release" => Release(s) /\ Tmr \notin interest
             /\ do = "mark" => Off1(s) /\ Tmr \notin interest
             /\ do = "ctl" => TmrDel2(s) \/ Off3(s) \/ (TmrBack2(s) /\ Tmr \notin interest)
             /\ do = "set" => TmrDel1(s) \/ Off2(s) \/ (TmrBack1(s) /\ em[Tmr].emee /\ em[Tmr].ev # "none")
  BY <1>5 DEF OfSettle, Settling, TmrTake, TmrFind, TmrDel2, TmrDel1, TmrUnlock, TimeOff, Off3, Off2, SettleOut, TmrFree,
     TmrBack2, TmrBack1, Off1, Release, First, TmrFacts
<1> HIDE DEF s, do
<1>6. \/ \E sk, tm \in BOOLEAN : OfQueue(s, sk, tm) /\ (tm => TmrAhead)
      \/ \E tm \in BOOLEAN : OfSock(s, tm) /\ (tm => TmrAhead)
      \/ OfTmr(s) \/ OfMod(s) \/ OfSettle(s)
  BY DEF WorkerInv, s
<1>7. CASE \E sk, tm \in BOOLEAN : OfQueue(s, sk, tm) /\ (tm => TmrAhead)
  <2>1. PICK sk \in BOOLEAN, tm \in BOOLEAN : OfQueue(s, sk, tm) /\ (tm => TmrAhead)
    BY <1>7
  <2>2. QueueFacts(sk, tm) => (tm => TmrAhead) /\ (sk => QueueFacts(TRUE, tm))
    BY DEF QueueFacts
  <2>q. QED  BY <1>1, <2>1, <2>2 DEF s, do
<1>8. CASE \E tm \in BOOLEAN : OfSock(s, tm) /\ (tm => TmrAhead)
  BY <1>2, <1>8 DEF s, do
<1>9. CASE OfTmr(s)
  BY <1>3, <1>9 DEF s, do
<1>10. CASE OfMod(s)
  BY <1>4, <1>10 DEF s, do
<1>11. CASE OfSettle(s)
  BY <1>5, <1>11, ZenonT(40) DEF s, do
<1>q. QED  BY <1>6, <1>7, <1>8, <1>9, <1>10, <1>11

\* The rest of the invariant is not disturbed by a step of a call that does not
\* close an event.
LEMMA CallPhase ==
    ASSUME IndInv, NEW t \in Threads, todo[t] # <<>>, Local(t)
    PROVE  PhaseInv'
<1>1. PhaseInv /\ UNCHANGED <<out, alive, pc, app>>
  BY DEF IndInv, Local
<1>2. /\ lock'["poller"] = lock["poller"] /\ lock'["handling"] = lock["handling"]
      /\ lock'["interest"] = lock["interest"]
  BY DEF Local
<1>3. todo'[Worker] # <<>> => todo[Worker] # <<>>
  BY Constants DEF Local
<1>4. pc.owner \in {"detach", "join", "done"} => todo'[App] = <<>>
  BY <1>1, Constants DEF Local, PhaseInv
<1>q. QED  BY <1>1, <1>2, <1>3, <1>4 DEF PhaseInv

\* A call deletes no other event than its own.
LEMMA AllLive ==
    ASSUME NEW t \in Threads, Local(t), em'[Arg(t).e].live = em[Arg(t).e].live
    PROVE  \A x \in Events : em'[x].live = em[x].live
  BY DEF Local

\* ... so a call that does not delete its own leaves LiveInv true.
LEMMA CallLive ==
    ASSUME IndInv, NEW t \in Threads, Local(t), em'[Arg(t).e].live = em[Arg(t).e].live
    PROVE  LiveInv'
<1>1. LiveInv /\ UNCHANGED <<pc, app>>
  BY DEF IndInv, Local
<1>q. QED  BY <1>1, AllLive, Constants DEF LiveInv

\* A call that leaves the poller's sets alone, and neither deletes its event nor
\* takes the ev_ of one in interest_, keeps what is said of those sets.
LEMMA CallInterest ==
    ASSUME IndInv, NEW t \in Threads, Local(t), UNCHANGED <<interest, ready>>,
           em'[Arg(t).e].live = em[Arg(t).e].live,
           em[Arg(t).e].emee => em'[Arg(t).e].emee,
           Arg(t).e \in interest => em'[Arg(t).e].ev # "none",
           Arg(t).e # Sfd \/ em'[Sfd].flags = em[Sfd].flags
    PROVE  InterestInv'
<1> DEFINE e == Arg(t).e
<1>1. InterestInv /\ UNCHANGED <<out, alive, pc, cb, interest, ready>>
  BY DEF IndInv, Local
<1>2. \A x \in Events : x # e => em'[x] = em[x]
  BY DEF Local
<1>3. interest \subseteq Events /\ out \subseteq Events
  BY DEF IndInv, TypeInv, TypeOK
<1>4. \A x \in interest : em'[x].emee /\ em'[x].ev # "none"
  BY <1>1, <1>2, <1>3 DEF InterestInv
<1>5. \A x \in interest \cup out : em'[x].live
  BY <1>1, <1>3, AllLive DEF InterestInv
<1>6. em'[Sfd].flags = em[Sfd].flags
  BY <1>2, Constants
<1>q. QED  BY <1>1, <1>4, <1>5, <1>6 DEF InterestInv

\* A call on another event than the timer does not disturb the timer.
LEMMA CallTimer ==
    ASSUME IndInv, NEW t \in Threads, Local(t), t # App, Arg(t).e # Tmr
    PROVE  TimerInv'
<1>1. TimerInv /\ UNCHANGED app
  BY DEF IndInv, Local
<1>2. em'[Tmr] = em[Tmr] /\ (Tmr \in interest' <=> Tmr \in interest) /\ todo'[App] = todo[App]
  BY Constants DEF Local
<1>q. QED  BY <1>1, <1>2 DEF TimerInv

\* A call on another event than the socket does not disturb the connection.
LEMMA CallConn ==
    ASSUME IndInv, NEW t \in Threads, Local(t), Arg(t).e # Sock
    PROVE  ConnInv'
<1>1. ConnInv /\ UNCHANGED <<app, pc, out, batch, cb>>
  BY DEF IndInv, Local
<1>2. em'[Sock] = em[Sock] /\ (Sock \in interest' <=> Sock \in interest)
  BY Constants DEF Local
<1>q. QED  BY <1>1, <1>2 DEF ConnInv, NotYetRead

\* What the worker's step does not touch.
WorkerFrame == PhaseInv' /\ LiveInv' /\ AppInv' /\ OwnerInv' /\ PostedInv' /\ (TmrKept' <=> TmrKept) /\ app' = app

\* What a call of the worker does not touch.
LEMMA WorkerLeaves ==
    ASSUME IndInv, todo[Worker] # <<>>, Local(Worker), Arg(Worker) \in StepType,
           em'[Arg(Worker).e].live = em[Arg(Worker).e].live
    PROVE  WorkerFrame /\ pc.worker = "handle" /\ alive
<1>1. PhaseInv' /\ LiveInv'
  BY CallPhase, CallLive, Constants
<1>2. todo'[App] = todo[App] /\ todo'[Owner] = todo[Owner] /\ UNCHANGED <<pc, app>>
  BY Constants DEF Local
<1>3. \A x \in Events : em'[x].live = em[x].live
  BY AllLive, Constants
<1>4. pc.worker = "handle" /\ pc.owner # "done" /\ alive
  BY DEF IndInv, PhaseInv
<1>5. OwnerInv /\ AppInv /\ PostedInv
  BY DEF IndInv
<1>6. OwnerInv'
  BY <1>2, <1>3, <1>4, <1>5, Constants DEF OwnerInv
<1>7. AppInv'
  BY <1>2, <1>5 DEF AppInv
<1>8. TmrKept' <=> TmrKept
  BY <1>2, <1>3, Constants DEF TmrKept
<1>9. PostedInv'
  BY <1>2, <1>5, <1>8 DEF PostedInv
<1>q. QED  BY <1>1, <1>2, <1>4, <1>6, <1>7, <1>8, <1>9 DEF WorkerFrame

\* What the worker knows of the events it does not touch.
LEMMA WorkerKnows ==
    ASSUME IndInv, Local(Worker), WorkerFrame, NEW sk \in BOOLEAN, NEW tm \in BOOLEAN
    PROVE  /\ Arg(Worker).e \notin {Sock, Tmr} /\ QueueFacts(sk, tm) => QueueFacts(sk, tm)'
           /\ Arg(Worker).e # Tmr /\ TmrAhead => TmrAhead'
           /\ TmrFacts => TmrFacts'
<1>1. app' = app /\ (TmrKept' <=> TmrKept)
  BY DEF WorkerFrame
<1>2. /\ Arg(Worker).e # Sock => (Sock \in interest' <=> Sock \in interest)
      /\ Arg(Worker).e # Tmr => (Tmr \in interest' <=> Tmr \in interest)
  BY Constants DEF Local
<1>q. QED  BY <1>1, <1>2 DEF QueueFacts, TmrAhead, TmrFacts

\* The application's thread does not arm the timer when it is done.
LEMMA AppApart ==
    ASSUME NEW s
    PROVE  /\ AppDone(s) => ~Arming(s) /\ ~ArmingOut(s) /\ ~On2(s) /\ ~On3(s)
           /\ ArmingOut(s) => Arming(s)
           /\ On2(s) \/ On3(s) => ArmingOut(s)
           /\ AppTake(s) \/ AppFind(s) \/ AppFree(s) \/ AppUnlock(s) \/ TimeOn(s) \/ On1(s) \/ AppPost(s) => ~On2(s) /\ ~On3(s)
           /\ On3(s) => ~On2(s)
           /\ On1(s) \/ AppPost(s) => ~ArmingOut(s)
  BY Constants DEF AppDone, AppWrite, Arming, ArmingOut, AppTake, AppFind, AppFree, AppUnlock, TimeOn, On3, On2, On1, AppPost, First

\* While the worker uses the timer nobody else does.
LEMMA WorkerTimer ==
    ASSUME IndInv, Local(Worker), WorkerFrame, TmrFacts
    PROVE  TimerInv'
<1>1. TimerInv /\ app' = app /\ todo'[App] = todo[App]
  BY Constants DEF IndInv, WorkerFrame, Local
<1>2. app.entry /\ app.registered /\ app.timer = "used" /\ AppDone(todo[App])
  BY <1>1 DEF TimerInv, TmrFacts
<1>q. QED  BY <1>1, <1>2, AppApart DEF TimerInv

\* What the worker's next step must know.
LEMMA QueueNext ==
    ASSUME NEW sk \in BOOLEAN, NEW tm \in BOOLEAN, QueueFacts(sk, tm)',
           LET z == todo'[Worker] IN
           \/ EfdTake(z, sk, tm) \/ EfdFind(z, sk, tm) \/ EfdDel2(z, sk, tm) \/ EfdDel1(z, sk, tm)
           \/ EfdUnlock(z, sk, tm) \/ AfterEfd(z, sk, tm)
           \/ (EfdFree(z, sk, tm) \/ EfdAdd2(z, sk, tm)) /\ Efd \notin interest'
           \/ EfdAdd1(z, sk, tm) /\ Efd \notin interest' /\ em'[Efd].emee /\ em'[Efd].ev # "none"
    PROVE  WorkerInv'
<1>1. OfQueue(todo[Worker], sk, tm)'
  BY QueueApart DEF OfQueue, Reading, EfdOut, QueueFacts
<1>2. tm => TmrAhead'
  BY DEF QueueFacts
<1>q. QED  BY <1>1, <1>2 DEF WorkerInv

\* The same for a call of Settle.
LEMMA SettleNext ==
    ASSUME TmrFacts',
           LET z == todo'[Worker] IN
           \/ TmrTake(z) \/ TmrFind(z) \/ TmrDel2(z) \/ TmrDel1(z) \/ TmrUnlock(z) \/ TimeOff(z) \/ Off3(z) \/ Off2(z)
           \/ (TmrFree(z) \/ TmrBack2(z) \/ Off1(z) \/ Release(z)) /\ Tmr \notin interest'
           \/ TmrBack1(z) /\ Tmr \notin interest' /\ em'[Tmr].emee /\ em'[Tmr].ev # "none"
    PROVE  WorkerInv'
<1>1. OfSettle(todo[Worker])'
  BY SettleApart DEF OfSettle, Settling, SettleOut, TmrFacts
<1>q. QED  BY <1>1 DEF WorkerInv

\* The four outcomes of a step that remain to be shown.
LEMMA WorkerStepDone ==
    ASSUME IndInv, WorkerFrame, TypeInv', thrown' = thrown, InterestInv', TimerInv', ConnInv', WorkerInv'
    PROVE  IndInv'
  BY DEF IndInv, WorkerFrame

\* The worker resets the counter of the queue or of the timer it settles.
LEMMA WorkerTake ==
    ASSUME IndInv, ResetCounterVal(Worker)
    PROVE  IndInv'
<1> DEFINE e == Arg(Worker).e
           s == todo[Worker]
<1>1. TypeInv /\ WorkerInv
  BY DEF IndInv
<1>2. /\ Doing(Worker, "take") /\ Arg(Worker) \in StepType
      /\ TypeInv' /\ Local(Worker) /\ KeepsEvent(e) /\ UNCHANGED <<interest, ready, thrown>>
      /\ \/ todo'[Worker] = Tail(s)
         \/ First(todo'[Worker], "find", e, "") /\ Tail(todo'[Worker]) = Tail(s)
  BY <1>1, TakeEffect, Constants
<1>3. s # <<>> /\ Head(s).do = "take" /\ Head(s).e = e
  BY <1>2 DEF Doing, Arg
<1>4. WorkerFrame
  BY <1>2, <1>3, WorkerLeaves DEF KeepsEvent
<1>5. InterestInv'
  <2>1. e \in interest => em[e].ev # "none"
    BY DEF IndInv, InterestInv
  <2>q. QED  BY <1>2, <2>1, CallInterest, Constants DEF KeepsEvent
<1>6. CASE \E sk, tm \in BOOLEAN : EfdTake(s, sk, tm) /\ QueueFacts(sk, tm)
  <2>1. PICK sk \in BOOLEAN, tm \in BOOLEAN : EfdTake(s, sk, tm) /\ QueueFacts(sk, tm)
    BY <1>6
  <2>2. e = Efd /\ AfterEfd(Tail(s), sk, tm)
    BY <1>3, <2>1 DEF EfdTake, First
  <2>3. TimerInv' /\ ConnInv'
    BY <1>2, <2>2, CallTimer, CallConn, Constants
  <2>4. QueueFacts(sk, tm)'
    BY <1>2, <1>4, <2>1, <2>2, WorkerKnows, Constants
  <2>5. AfterEfd(todo'[Worker], sk, tm) \/ EfdFind(todo'[Worker], sk, tm)
    BY <1>2, <2>2 DEF EfdFind
  <2>6. WorkerInv'
    BY <2>4, <2>5, QueueNext
  <2>q. QED  BY <1>2, <1>4, <1>5, <2>3, <2>6, WorkerStepDone
<1>7. CASE TmrTake(s) /\ TmrFacts
  <2>1. e = Tmr /\ TimeOff(Tail(s))
    BY <1>3, <1>7 DEF TmrTake, First
  <2>2. TimerInv' /\ ConnInv'
    BY <1>2, <1>4, <1>7, <2>1, WorkerTimer, CallConn, Constants
  <2>3. TmrFacts'
    BY <1>2, <1>4, <1>7, WorkerKnows
  <2>4. TimeOff(todo'[Worker]) \/ TmrFind(todo'[Worker])
    BY <1>2, <2>1 DEF TmrFind
  <2>5. WorkerInv'
    BY <2>3, <2>4, SettleNext
  <2>q. QED  BY <1>2, <1>4, <1>5, <2>2, <2>5, WorkerStepDone
<1>q. QED  BY <1>1, <1>3, <1>6, <1>7, WorkerShape

\* The worker renews the event: by way of interest_ if it is in it.
LEMMA WorkerFind ==
    ASSUME IndInv, RenewEv(Worker)
    PROVE  IndInv'
<1> DEFINE e == Arg(Worker).e
           s == todo[Worker]
           in == alive /\ em[e].emee /\ e \in interest
<1>1. TypeInv /\ WorkerInv
  BY DEF IndInv
<1>2. /\ Doing(Worker, "find") /\ Arg(Worker) \in StepType
      /\ TypeInv' /\ Local(Worker) /\ UNCHANGED <<em, interest, ready, thrown>>
      /\ \A sk, tm \in BOOLEAN : e = Efd /\ AfterEfd(Tail(s), sk, tm) =>
            IF in THEN EfdDel2(todo'[Worker], sk, tm) ELSE EfdFree(todo'[Worker], sk, tm)
      /\ e = Tmr /\ TimeOff(Tail(s)) => IF in THEN TmrDel2(todo'[Worker]) ELSE TmrFree(todo'[Worker])
  BY <1>1, FindEffect, Constants
<1>3. s # <<>> /\ Head(s).do = "find" /\ Head(s).e = e
  BY <1>2 DEF Doing, Arg
<1>4. WorkerFrame /\ alive
  BY <1>2, <1>3, WorkerLeaves
<1>5. InterestInv'
  <2>1. e \in interest => em[e].ev # "none"
    BY DEF IndInv, InterestInv
  <2>q. QED  BY <1>2, <2>1, CallInterest, Constants
<1>51. ~in => e \notin interest'
  BY <1>2, <1>4 DEF IndInv, InterestInv
<1> HIDE DEF in
<1>6. CASE \E sk, tm \in BOOLEAN : EfdFind(s, sk, tm) /\ QueueFacts(sk, tm)
  <2>1. PICK sk \in BOOLEAN, tm \in BOOLEAN : EfdFind(s, sk, tm) /\ QueueFacts(sk, tm)
    BY <1>6
  <2>2. e = Efd /\ AfterEfd(Tail(s), sk, tm)
    BY <1>3, <2>1 DEF EfdFind, First
  <2>3. TimerInv' /\ ConnInv'
    BY <1>2, <2>2, CallTimer, CallConn, Constants
  <2>4. QueueFacts(sk, tm)'
    BY <1>2, <1>4, <2>1, <2>2, WorkerKnows, Constants
  <2>5. EfdDel2(todo'[Worker], sk, tm) \/ (EfdFree(todo'[Worker], sk, tm) /\ Efd \notin interest')
    BY <1>2, <1>51, <2>2
  <2>6. WorkerInv'
    BY <2>4, <2>5, QueueNext
  <2>q. QED  BY <1>2, <1>4, <1>5, <2>3, <2>6, WorkerStepDone
<1>7. CASE TmrFind(s) /\ TmrFacts
  <2>1. e = Tmr /\ TimeOff(Tail(s))
    BY <1>3, <1>7 DEF TmrFind, First
  <2>2. TimerInv' /\ ConnInv'
    BY <1>2, <1>4, <1>7, <2>1, WorkerTimer, CallConn, Constants
  <2>3. TmrFacts'
    BY <1>2, <1>4, <1>7, WorkerKnows
  <2>4. TmrDel2(todo'[Worker]) \/ (TmrFree(todo'[Worker]) /\ Tmr \notin interest')
    BY <1>2, <1>51, <2>1
  <2>5. WorkerInv'
    BY <2>3, <2>4, SettleNext
  <2>q. QED  BY <1>2, <1>4, <1>5, <2>2, <2>5, WorkerStepDone
<1>q. QED  BY <1>1, <1>3, <1>6, <1>7, WorkerShape

\* The ev_ is freed only while the event is out of interest_.
LEMMA WorkerFree ==
    ASSUME IndInv, FreeEv(Worker)
    PROVE  IndInv'
<1> DEFINE e == Arg(Worker).e
           s == todo[Worker]
<1>1. TypeInv /\ WorkerInv
  BY DEF IndInv
<1>2. /\ Doing(Worker, "free") /\ Arg(Worker) \in StepType
      /\ TypeInv' /\ Local(Worker) /\ UNCHANGED <<interest, ready, thrown>>
      /\ em'[e].live = em[e].live /\ em'[e].flags = em[e].flags /\ em'[e].emee = em[e].emee
      /\ todo'[Worker] = Tail(s)
  BY <1>1, FreeEffect, Constants
<1>3. s # <<>> /\ Head(s).do = "free" /\ Head(s).e = e
  BY <1>2 DEF Doing, Arg
<1>4. WorkerFrame
  BY <1>2, <1>3, WorkerLeaves
<1>5. e \notin interest => InterestInv'
  BY <1>2, CallInterest, Constants
<1>6. CASE \E sk, tm \in BOOLEAN : EfdFree(s, sk, tm) /\ QueueFacts(sk, tm) /\ Efd \notin interest
  <2>1. PICK sk \in BOOLEAN, tm \in BOOLEAN : EfdFree(s, sk, tm) /\ QueueFacts(sk, tm)
    BY <1>6
  <2>2. e = Efd /\ (EfdAdd2(Tail(s), sk, tm) \/ EfdUnlock(Tail(s), sk, tm))
    BY <1>3, <2>1 DEF EfdFree, First
  <2>3. TimerInv' /\ ConnInv'
    BY <1>2, <2>2, CallTimer, CallConn, Constants
  <2>4. QueueFacts(sk, tm)'
    BY <1>2, <1>4, <2>1, <2>2, WorkerKnows, Constants
  <2>5. (EfdAdd2(todo'[Worker], sk, tm) /\ Efd \notin interest') \/ EfdUnlock(todo'[Worker], sk, tm)
    BY <1>2, <1>6, <2>2
  <2>6. WorkerInv'
    BY <2>4, <2>5, QueueNext
  <2>q. QED  BY <1>2, <1>4, <1>5, <1>6, <2>2, <2>3, <2>6, WorkerStepDone
<1>7. CASE TmrFree(s) /\ TmrFacts /\ Tmr \notin interest
  <2>1. e = Tmr /\ (TmrBack2(Tail(s)) \/ TmrUnlock(Tail(s)))
    BY <1>3, <1>7 DEF TmrFree, First
  <2>2. TimerInv' /\ ConnInv'
    BY <1>2, <1>4, <1>7, <2>1, WorkerTimer, CallConn, Constants
  <2>3. TmrFacts'
    BY <1>2, <1>4, <1>7, WorkerKnows
  <2>4. (TmrBack2(todo'[Worker]) /\ Tmr \notin interest') \/ TmrUnlock(todo'[Worker])
    BY <1>2, <1>7, <2>1
  <2>5. WorkerInv'
    BY <2>3, <2>4, SettleNext
  <2>q. QED  BY <1>2, <1>4, <1>5, <1>7, <2>1, <2>2, <2>5, WorkerStepDone
<1>q. QED  BY <1>1, <1>3, <1>6, <1>7, WorkerShape

\* The counter's mutex is released when the event is back in interest_.
LEMMA WorkerUnlock ==
    ASSUME IndInv, UnlockCounter(Worker)
    PROVE  IndInv'
<1> DEFINE e == Arg(Worker).e
           s == todo[Worker]
<1>1. TypeInv /\ WorkerInv
  BY DEF IndInv
<1>2. /\ Doing(Worker, "unlock") /\ Arg(Worker) \in StepType
      /\ TypeInv' /\ Local(Worker) /\ UNCHANGED <<em, interest, ready, thrown>>
      /\ todo'[Worker] = Tail(s)
  BY <1>1, UnlockEffect, Constants
<1>3. s # <<>> /\ Head(s).do = "unlock" /\ Head(s).e = e
  BY <1>2 DEF Doing, Arg
<1>4. WorkerFrame
  BY <1>2, <1>3, WorkerLeaves
<1>5. InterestInv'
  <2>1. e \in interest => em[e].ev # "none"
    BY DEF IndInv, InterestInv
  <2>q. QED  BY <1>2, <2>1, CallInterest, Constants
<1>6. CASE \E sk, tm \in BOOLEAN : EfdUnlock(s, sk, tm) /\ QueueFacts(sk, tm)
  <2>1. PICK sk \in BOOLEAN, tm \in BOOLEAN : EfdUnlock(s, sk, tm) /\ QueueFacts(sk, tm)
    BY <1>6
  <2>2. e = Efd /\ AfterEfd(Tail(s), sk, tm)
    BY <1>3, <2>1 DEF EfdUnlock, First
  <2>3. TimerInv' /\ ConnInv'
    BY <1>2, <2>2, CallTimer, CallConn, Constants
  <2>4. QueueFacts(sk, tm)'
    BY <1>2, <1>4, <2>1, <2>2, WorkerKnows, Constants
  <2>5. AfterEfd(todo'[Worker], sk, tm)
    BY <1>2, <2>2
  <2>6. WorkerInv'
    BY <2>4, <2>5, QueueNext
  <2>q. QED  BY <1>2, <1>4, <1>5, <2>3, <2>6, WorkerStepDone
<1>7. CASE TmrUnlock(s) /\ TmrFacts
  <2>1. e = Tmr /\ TimeOff(Tail(s))
    BY <1>3, <1>7 DEF TmrUnlock, First
  <2>2. TimerInv' /\ ConnInv'
    BY <1>2, <1>4, <1>7, <2>1, WorkerTimer, CallConn, Constants
  <2>3. TmrFacts'
    BY <1>2, <1>4, <1>7, WorkerKnows
  <2>4. TimeOff(todo'[Worker])
    BY <1>2, <2>1
  <2>5. WorkerInv'
    BY <2>3, <2>4, SettleNext
  <2>q. QED  BY <1>2, <1>4, <1>5, <2>2, <2>5, WorkerStepDone
<1>q. QED  BY <1>1, <1>3, <1>6, <1>7, WorkerShape

\* What is left of the socket's registration.
LEMMA SockNext ==
    ASSUME NEW tm \in BOOLEAN, tm => TmrAhead', app'.conn # "new",
           LET z == todo'[Worker] IN
           \/ (SockAdd3(z, tm) \/ SockAdd2(z, tm)) /\ em'[Sock].emee /\ em'[Sock].ev # "none"
           \/ SockAdd1(z, tm)
    PROVE  WorkerInv'
<1>1. ~(SockAdd1(todo'[Worker], tm) /\ (SockAdd3(todo'[Worker], tm) \/ SockAdd2(todo'[Worker], tm)))
  BY DEF SockAdd1, SockAdd2, SockAdd3, First
<1>2. OfSock(todo[Worker], tm)'
  BY <1>1 DEF OfSock, SockAdding
<1>q. QED  BY <1>2 DEF WorkerInv

\* What is left of the timer's registration.
LEMMA TmrNext ==
    ASSUME TmrFacts',
           LET z == todo'[Worker] IN
           \/ (TmrAdd3(z) \/ TmrAdd2(z)) /\ Tmr \notin interest' /\ em'[Tmr].emee /\ em'[Tmr].ev # "none"
           \/ TmrAdd1(z)
    PROVE  WorkerInv'
<1>1. ~(TmrAdd1(todo'[Worker]) /\ (TmrAdd3(todo'[Worker]) \/ TmrAdd2(todo'[Worker])))
  BY DEF TmrAdd1, TmrAdd2, TmrAdd3, First
<1>2. OfTmr(todo[Worker])'
  BY <1>1 DEF OfTmr, TmrAdding, TmrFacts
<1>q. QED  BY <1>2 DEF WorkerInv

\* What is left of HandleWritable's ctl.
LEMMA ModNext ==
    ASSUME app'.conn = "up",
           LET z == todo'[Worker] IN
           \/ (SockMod3(z) \/ SockMod2(z)) /\ em'[Sock].emee /\ em'[Sock].ev # "none"
           \/ SockMod4(z) \/ SockMod1(z)
    PROVE  WorkerInv'
<1>1. ~((SockMod4(todo'[Worker]) \/ SockMod1(todo'[Worker])) /\ (SockMod3(todo'[Worker]) \/ SockMod2(todo'[Worker])))
  BY DEF SockMod1, SockMod2, SockMod3, SockMod4, First
<1>2. OfMod(todo[Worker])'
  BY <1>1 DEF OfMod, SockMoving
<1>q. QED  BY <1>2 DEF WorkerInv

\* ... and when it has nothing left to do.
LEMMA NothingNext ==
    ASSUME todo'[Worker] = <<>>
    PROVE  WorkerInv'
<1>1. QueueFacts(FALSE, FALSE)'
  BY DEF QueueFacts
<1>2. AfterEfd(todo'[Worker], FALSE, FALSE)
  BY DEF AfterEfd, AfterSock
<1>q. QED  BY <1>1, <1>2, QueueNext

\* A step that keeps the event keeps what is known of the timer, ...
LEMMA CallKeepsTimer ==
    ASSUME IndInv, NEW t \in Threads, Local(t), t # App, Arg(t) \in StepType, KeepsEvent(Arg(t).e),
           em'[Arg(t).e].counter = em[Arg(t).e].counter, UNCHANGED interest
    PROVE  TimerInv'
<1>1. TimerInv /\ UNCHANGED app /\ todo'[App] = todo[App]
  BY Constants DEF IndInv, Local
<1>2. em'[Tmr].emee = em[Tmr].emee /\ em'[Tmr].counter = em[Tmr].counter /\ em'[Tmr].ev = em[Tmr].ev
  BY Constants DEF Local, KeepsEvent
<1>q. QED  BY <1>1, <1>2 DEF TimerInv

\* ... of the connection, ...
LEMMA CallKeepsConn ==
    ASSUME IndInv, NEW t \in Threads, Local(t), Arg(t) \in StepType, KeepsEvent(Arg(t).e),
           Arg(t).e = Sock => em'[Sock].active = em[Sock].active, UNCHANGED interest
    PROVE  ConnInv'
<1>1. ConnInv /\ UNCHANGED <<app, pc, out, batch, cb>>
  BY DEF IndInv, Local
<1>2. em'[Sock].flags = em[Sock].flags /\ em'[Sock].active = em[Sock].active /\ em'[Sock].readyFlags = em[Sock].readyFlags
  BY Constants DEF Local, KeepsEvent
<1>q. QED  BY <1>1, <1>2 DEF ConnInv, NotYetRead

\* ... and of the poller's sets.
LEMMA CallKeepsInterest ==
    ASSUME IndInv, NEW t \in Threads, Local(t), Arg(t) \in StepType, KeepsEvent(Arg(t).e), UNCHANGED <<interest, ready>>
    PROVE  InterestInv'
<1>1. Arg(t).e \in interest => em[Arg(t).e].ev # "none"
  BY DEF IndInv, InterestInv
<1>q. QED  BY <1>1, CallInterest, Constants DEF KeepsEvent

\* The worker disarms a timer that is its own, registered and not deleted.
LEMMA WorkerTime ==
    ASSUME IndInv, SettimeStep(Worker)
    PROVE  IndInv'
<1> DEFINE e == Arg(Worker).e
           s == todo[Worker]
           z == todo'[Worker]
<1>1. TypeInv /\ WorkerInv /\ InterestInv
  BY DEF IndInv
<1>2. /\ Doing(Worker, "time") /\ Arg(Worker) \in StepType
      /\ TypeInv' /\ Local(Worker) /\ KeepsEvent(e) /\ UNCHANGED <<interest, ready, thrown>>
      /\ em'[e].counter = em[e].counter /\ em'[e].active = em[e].active
      /\ e = Tmr /\ Arg(Worker).op # "on" /\ em[e].emee /\ em[e].ev # "none" =>
           First(z, "ctl", Tmr, "Del") /\ First(Tail(z), "set", Tmr, "Del")
           /\ First(Tail(Tail(z)), "mark", Tmr, "real") /\ Tail(Tail(Tail(z))) = Tail(s)
      /\ Arg(Worker).op # "on" /\ ~(em[e].emee /\ em[e].ev # "none") => z = Tail(s)
  BY <1>1, TimeEffect, Constants
<1>3. s # <<>> /\ Head(s).do = "time" /\ Head(s) = Arg(Worker)
  BY <1>2 DEF Doing, Arg
<1>4. WorkerFrame
  BY <1>2, <1>3, WorkerLeaves DEF KeepsEvent
<1>5. InterestInv' /\ TimerInv' /\ ConnInv'
  BY <1>2, CallKeepsInterest, CallKeepsTimer, CallKeepsConn, Constants
<1>6. TimeOff(s) /\ TmrFacts
  BY <1>1, <1>3, WorkerShape
<1>7. e = Tmr /\ Arg(Worker).op = "off" /\ Release(Tail(s))
  BY <1>3, <1>6 DEF TimeOff, First
<1>8. TmrFacts'
  BY <1>2, <1>4, <1>6, WorkerKnows
<1>9. CASE em[e].emee /\ em[e].ev # "none"
  <2>1. Off3(z)
    BY <1>2, <1>7, <1>9 DEF Off3, Off2, Off1
  <2>2. WorkerInv'
    BY <1>8, <2>1, SettleNext
  <2>q. QED  BY <1>2, <1>4, <1>5, <2>2, WorkerStepDone
<1>10. CASE ~(em[e].emee /\ em[e].ev # "none")
  <2>1. Release(z) /\ Tmr \notin interest'
    BY <1>1, <1>2, <1>7, <1>10 DEF InterestInv
  <2>2. WorkerInv'
    BY <1>8, <2>1, SettleNext
  <2>q. QED  BY <1>2, <1>4, <1>5, <2>2, WorkerStepDone
<1>q. QED  BY <1>9, <1>10

\* A registration ends, or the disarming of the timer does.
LEMMA WorkerMark ==
    ASSUME IndInv, MarkArtificial(Worker)
    PROVE  IndInv'
<1> DEFINE e == Arg(Worker).e
           s == todo[Worker]
<1>1. TypeInv /\ WorkerInv
  BY DEF IndInv
<1>2. /\ Doing(Worker, "mark") /\ Arg(Worker) \in StepType
      /\ TypeInv' /\ Local(Worker) /\ KeepsEvent(e) /\ UNCHANGED <<interest, ready, thrown>>
      /\ em'[e].counter = em[e].counter /\ em'[e].active = em[e].active
      /\ todo'[Worker] = Tail(s)
  BY <1>1, MarkEffect, Constants
<1>3. s # <<>> /\ Head(s).do = "mark" /\ Head(s).e = e
  BY <1>2 DEF Doing, Arg
<1>4. WorkerFrame
  BY <1>2, <1>3, WorkerLeaves DEF KeepsEvent
<1>5. InterestInv' /\ TimerInv' /\ ConnInv'
  BY <1>2, CallKeepsInterest, CallKeepsTimer, CallKeepsConn, Constants
<1>6. ASSUME NEW tm \in BOOLEAN, SockAdd1(s, tm), tm => TmrAhead
      PROVE  WorkerInv'
  <2>1. e = Sock /\ AfterSock(Tail(s), tm)
    BY <1>3, <1>6 DEF SockAdd1, First
  <2>2. tm => TmrAhead'
    BY <1>2, <1>4, <1>6, <2>1, WorkerKnows, Constants
  <2>3. QueueFacts(FALSE, tm)' /\ AfterEfd(todo'[Worker], FALSE, tm)
    BY <1>2, <2>1, <2>2 DEF QueueFacts, AfterEfd
  <2>q. QED  BY <2>3, QueueNext
<1>7. ASSUME TmrAdd1(s) \/ SockMod1(s)
      PROVE  WorkerInv'
  BY <1>2, <1>7, NothingNext DEF TmrAdd1, SockMod1
<1>8. ASSUME Off1(s), TmrFacts, Tmr \notin interest
      PROVE  WorkerInv'
  <2>1. Release(todo'[Worker]) /\ Tmr \notin interest'
    BY <1>2, <1>8 DEF Off1
  <2>2. TmrFacts'
    BY <1>2, <1>4, <1>8, WorkerKnows
  <2>q. QED  BY <2>1, <2>2, SettleNext
<1>9. WorkerInv'
  BY <1>1, <1>3, <1>6, <1>7, <1>8, WorkerShape
<1>q. QED  BY <1>2, <1>4, <1>5, <1>9, WorkerStepDone

\* An event being registered may be activated before it is in interest_.
LEMMA WorkerActivate ==
    ASSUME IndInv, CtrActivate(Worker)
    PROVE  IndInv'
<1> DEFINE e == Arg(Worker).e
           s == todo[Worker]
<1>1. TypeInv /\ WorkerInv
  BY DEF IndInv
<1>2. /\ Doing(Worker, "activate") /\ Arg(Worker) \in StepType
      /\ TypeInv' /\ Local(Worker) /\ KeepsEvent(e) /\ UNCHANGED <<interest, ready, thrown>>
      /\ em'[e].counter = em[e].counter /\ (e = Sock => em'[e] = em[e])
      /\ todo'[Worker] = Tail(s)
  BY <1>1, ActivateEffect, Constants
<1>3. s # <<>> /\ Head(s).do = "activate" /\ Head(s).e = e
  BY <1>2 DEF Doing, Arg
<1>4. WorkerFrame /\ app' = app
  BY <1>2, <1>3, WorkerLeaves DEF KeepsEvent, WorkerFrame
<1>5. InterestInv' /\ TimerInv' /\ ConnInv'
  BY <1>2, CallKeepsInterest, CallKeepsTimer, CallKeepsConn, Constants
<1>6. ASSUME NEW tm \in BOOLEAN, SockAdd3(s, tm), tm => TmrAhead, app.conn # "new", em[Sock].emee, em[Sock].ev # "none"
      PROVE  WorkerInv'
  <2>1. e = Sock /\ SockAdd2(Tail(s), tm)
    BY <1>3, <1>6 DEF SockAdd3, First
  <2>2. tm => TmrAhead'
    BY <1>2, <1>4, <1>6, <2>1, WorkerKnows, Constants
  <2>3. SockAdd2(todo'[Worker], tm) /\ em'[Sock].emee /\ em'[Sock].ev # "none" /\ app'.conn # "new"
    BY <1>2, <1>4, <1>6, <2>1
  <2>q. QED  BY <2>2, <2>3, SockNext
<1>7. ASSUME TmrAdd3(s), TmrFacts, Tmr \notin interest, em[Tmr].emee, em[Tmr].ev # "none"
      PROVE  WorkerInv'
  <2>1. e = Tmr /\ TmrAdd2(Tail(s))
    BY <1>3, <1>7 DEF TmrAdd3, First
  <2>2. TmrFacts'
    BY <1>2, <1>4, <1>7, WorkerKnows
  <2>3. TmrAdd2(todo'[Worker]) /\ Tmr \notin interest' /\ em'[Tmr].emee /\ em'[Tmr].ev # "none"
    BY <1>2, <1>7, <2>1 DEF KeepsEvent
  <2>q. QED  BY <2>2, <2>3, TmrNext
<1>8. ASSUME SockMod3(s), app.conn = "up", em[Sock].emee, em[Sock].ev # "none"
      PROVE  WorkerInv'
  <2>1. e = Sock /\ SockMod2(Tail(s))
    BY <1>3, <1>8 DEF SockMod3, First
  <2>3. SockMod2(todo'[Worker]) /\ em'[Sock].emee /\ em'[Sock].ev # "none" /\ app'.conn = "up"
    BY <1>2, <1>4, <1>8, <2>1
  <2>q. QED  BY <2>3, ModNext
<1>9. WorkerInv'
  BY <1>1, <1>3, <1>6, <1>7, <1>8, WorkerShape
<1>q. QED  BY <1>2, <1>4, <1>5, <1>9, WorkerStepDone

\* The worker's ctl never meets EEXIST: what it adds is not in interest_.
LEMMA WorkerCtl ==
    ASSUME IndInv, CtlStep(Worker)
    PROVE  IndInv'
<1> DEFINE e == Arg(Worker).e
           s == todo[Worker]
           z == todo'[Worker]
<1>1. TypeInv /\ WorkerInv
  BY DEF IndInv
<1>2. s # <<>> /\ Head(s).do = "ctl" /\ Head(s) = Arg(Worker)
  BY DEF CtlStep, Doing, Arg
<1>3. /\ \/ \E sk, tm \in BOOLEAN : EfdDel2(s, sk, tm) /\ QueueFacts(sk, tm)
         \/ \E sk, tm \in BOOLEAN : EfdAdd2(s, sk, tm) /\ QueueFacts(sk, tm) /\ Efd \notin interest
         \/ \E tm \in BOOLEAN : SockAdd4(s, tm) /\ QueueFacts(TRUE, tm)
         \/ TmrAdd4(s) /\ TmrAhead
         \/ SockMod4(s) /\ app.conn = "up"
         \/ (TmrDel2(s) \/ Off3(s)) /\ TmrFacts
         \/ TmrBack2(s) /\ TmrFacts /\ Tmr \notin interest
  BY <1>1, <1>2, WorkerShape
<1>4. ~AlreadyThere(e, Arg(Worker).op)
  <2>1. ASSUME NEW sk \in BOOLEAN, NEW tm \in BOOLEAN
        PROVE  /\ EfdDel2(s, sk, tm) => Arg(Worker).op = "Del"
               /\ EfdAdd2(s, sk, tm) => e = Efd
               /\ SockAdd4(s, tm) => e = Sock
    BY <1>2 DEF EfdDel2, EfdAdd2, SockAdd4, First
  <2>2. /\ TmrAdd4(s) => e = Tmr
        /\ SockMod4(s) => Arg(Worker).op = "Mod"
        /\ TmrDel2(s) \/ Off3(s) => Arg(Worker).op = "Del"
        /\ TmrBack2(s) => e = Tmr
    BY <1>2 DEF TmrAdd4, SockMod4, TmrDel2, Off3, TmrBack2, First
  <2>3. \A tm \in BOOLEAN : QueueFacts(TRUE, tm) => Sock \notin interest
    BY DEF QueueFacts
  <2>q. QED  BY <1>3, <2>1, <2>2, <2>3 DEF AlreadyThere, TmrAhead
<1>5. /\ Doing(Worker, "ctl") /\ Arg(Worker) \in StepType
      /\ TypeInv' /\ Local(Worker) /\ UNCHANGED <<interest, ready, thrown>>
      /\ em'[e].live = em[e].live /\ em'[e].ev # "none" /\ em'[e].emee /\ em'[e].readyFlags = {}
      /\ em'[e].active \subseteq em[e].active
      /\ em'[e].flags = em[e].flags \/ em'[e].flags = Arg(Worker).flags
      /\ z = Tail(s)
  BY <1>1, <1>4, CtlEffect, Constants
<1>6. WorkerFrame /\ app' = app
  BY <1>2, <1>5, WorkerLeaves DEF WorkerFrame
<1>7. e # Sfd => InterestInv'
  BY <1>5, CallInterest, Constants
<1>8. ASSUME NEW sk \in BOOLEAN, NEW tm \in BOOLEAN, QueueFacts(sk, tm),
             EfdDel2(s, sk, tm) \/ (EfdAdd2(s, sk, tm) /\ Efd \notin interest)
      PROVE  IndInv'
  <2>1. e = Efd /\ (EfdDel1(Tail(s), sk, tm) \/ (EfdAdd1(Tail(s), sk, tm) /\ Efd \notin interest))
    BY <1>2, <1>8 DEF EfdDel2, EfdAdd2, First
  <2>2. InterestInv' /\ TimerInv' /\ ConnInv'
    BY <1>5, <1>7, <2>1, CallTimer, CallConn, Constants
  <2>3. QueueFacts(sk, tm)'
    BY <1>5, <1>6, <1>8, <2>1, WorkerKnows, Constants
  <2>4. WorkerInv'
    BY <1>5, <2>1, <2>3, QueueNext
  <2>q. QED  BY <1>5, <1>6, <2>2, <2>4, WorkerStepDone
<1>9. ASSUME NEW tm \in BOOLEAN, SockAdd4(s, tm), QueueFacts(TRUE, tm)
      PROVE  IndInv'
  <2>1. e = Sock /\ Arg(Worker).flags = {"WRITE"} /\ SockAdd3(Tail(s), tm) /\ app.conn # "new" /\ (tm => TmrAhead)
    BY <1>2, <1>9 DEF SockAdd4, First, QueueFacts
  <2>2. InterestInv' /\ TimerInv'
    BY <1>5, <1>7, <2>1, CallTimer, Constants
  <2>3. ConnInv'
    <3>1. ConnInv /\ UNCHANGED <<app, pc, out, batch, cb, interest>>
      BY <1>5 DEF IndInv, Local
    <3>q. QED  BY <1>5, <2>1, <3>1 DEF ConnInv, NotYetRead
  <2>4. tm => TmrAhead'
    BY <1>5, <1>6, <2>1, WorkerKnows, Constants
  <2>5. WorkerInv'
    BY <1>5, <1>6, <2>1, <2>4, SockNext
  <2>q. QED  BY <1>5, <1>6, <2>2, <2>3, <2>5, WorkerStepDone
<1>10. ASSUME TmrAdd4(s), TmrAhead
       PROVE  IndInv'
  <2>1. e = Tmr /\ TmrAdd3(Tail(s)) /\ TmrFacts /\ Tmr \notin interest
    BY <1>2, <1>10 DEF TmrAdd4, First, TmrFacts, TmrAhead
  <2>2. InterestInv' /\ TimerInv' /\ ConnInv' /\ TmrFacts'
    BY <1>5, <1>6, <1>7, <2>1, WorkerTimer, WorkerKnows, CallConn, Constants
  <2>3. WorkerInv'
    BY <1>5, <2>1, <2>2, TmrNext
  <2>q. QED  BY <1>5, <1>6, <2>2, <2>3, WorkerStepDone
<1>11. ASSUME SockMod4(s), app.conn = "up"
       PROVE  IndInv'
  <2>1. e = Sock /\ SockMod3(Tail(s))
    BY <1>2, <1>11 DEF SockMod4, First
  <2>2. InterestInv' /\ TimerInv'
    BY <1>5, <1>7, <2>1, CallTimer, Constants
  <2>3. ConnInv'
    <3>1. ConnInv /\ UNCHANGED <<app, pc, out, batch, cb, interest>>
      BY <1>5 DEF IndInv, Local
    <3>q. QED  BY <1>11, <3>1 DEF ConnInv, NotYetRead
  <2>5. WorkerInv'
    BY <1>5, <1>6, <1>11, <2>1, ModNext
  <2>q. QED  BY <1>5, <1>6, <2>2, <2>3, <2>5, WorkerStepDone
<1>12. ASSUME TmrFacts, TmrDel2(s) \/ Off3(s) \/ (TmrBack2(s) /\ Tmr \notin interest)
       PROVE  IndInv'
  <2>1. e = Tmr /\ (TmrDel1(Tail(s)) \/ Off2(Tail(s)) \/ (TmrBack1(Tail(s)) /\ Tmr \notin interest))
    BY <1>2, <1>12 DEF TmrDel2, Off3, TmrBack2, First
  <2>2. InterestInv' /\ TimerInv' /\ ConnInv' /\ TmrFacts'
    BY <1>5, <1>6, <1>7, <1>12, <2>1, WorkerTimer, WorkerKnows, CallConn, Constants
  <2>3. WorkerInv'
    BY <1>5, <2>1, <2>2, SettleNext
  <2>q. QED  BY <1>5, <1>6, <2>2, <2>3, WorkerStepDone
<1>q. QED  BY <1>3, <1>8, <1>9, <1>10, <1>11, <1>12

\* What changes with interest_.
LEMMA SetInterest ==
    ASSUME IndInv, NEW t \in Threads, InterestStep(t), Arg(t).e # Sfd,
           Arg(t).op # "Del" => alive /\ em[Arg(t).e].live /\ em[Arg(t).e].emee /\ em[Arg(t).e].ev # "none"
    PROVE  InterestInv'
<1> DEFINE e == Arg(t).e
<1>1. /\ Local(t) /\ UNCHANGED em /\ lock["interest"] = Free
      /\ interest' = IF Arg(t).op = "Del" THEN interest \ {e} ELSE interest \cup {e}
      /\ ready' = IF Arg(t).op = "Del" THEN ready \ {e} ELSE ready
  BY SetEffect DEF IndInv
<1>2. InterestInv /\ UNCHANGED <<out, alive, pc, cb>>
  BY <1>1 DEF IndInv, Local
<1>3. pc.worker # "tick"
  BY <1>1 DEF IndInv, PhaseInv, Free, Worker
<1>q. QED  BY <1>1, <1>2, <1>3 DEF InterestInv

\* The worker's events live.
LEMMA WorkerLives ==
    ASSUME IndInv, todo[Worker] # <<>>
    PROVE  em[Efd].live /\ em[Sock].live /\ (TmrKept => em[Tmr].live) /\ alive
<1>1. pc.owner \notin {"join", "done"} /\ ~app.stop /\ alive
  BY DEF IndInv, PhaseInv
<1>q. QED  BY <1>1 DEF IndInv, LiveInv, TmrKept

\* The worker's second critical section puts only living events with an ev_ of the
\* poller's base in interest_.
LEMMA WorkerSet ==
    ASSUME IndInv, InterestStep(Worker)
    PROVE  IndInv'
<1> DEFINE e == Arg(Worker).e
           op == Arg(Worker).op
           s == todo[Worker]
           z == todo'[Worker]
<1>1. TypeInv /\ WorkerInv
  BY DEF IndInv
<1>2. /\ Doing(Worker, "set") /\ Arg(Worker) \in StepType
      /\ TypeInv' /\ Local(Worker) /\ UNCHANGED <<em, thrown>>
      /\ interest' = IF op = "Del" THEN interest \ {e} ELSE interest \cup {e}
      /\ z = Tail(s)
  BY <1>1, SetEffect, Constants
<1>3. s # <<>> /\ Head(s).do = "set" /\ Head(s) = Arg(Worker)
  BY <1>2 DEF Doing, Arg
<1>4. WorkerFrame /\ app' = app
  BY <1>2, <1>3, WorkerLeaves DEF WorkerFrame
<1>5. em[Efd].live /\ em[Sock].live /\ (TmrKept => em[Tmr].live) /\ alive
  BY <1>3, WorkerLives
<1>6. e # Sfd /\ (op # "Del" => em[e].live /\ em[e].emee /\ em[e].ev # "none") => InterestInv'
  BY <1>5, SetInterest, Constants
<1>7. ASSUME NEW sk \in BOOLEAN, NEW tm \in BOOLEAN, QueueFacts(sk, tm),
             EfdDel1(s, sk, tm) \/ (EfdAdd1(s, sk, tm) /\ em[Efd].emee /\ em[Efd].ev # "none")
      PROVE  IndInv'
  <2>1. e = Efd /\ (op = "Del" \/ (em[Efd].emee /\ em[Efd].ev # "none"))
    BY <1>3, <1>7 DEF EfdDel1, EfdAdd1, First
  <2>2. (EfdFree(z, sk, tm) /\ Efd \notin interest') \/ EfdUnlock(z, sk, tm)
    BY <1>2, <1>3, <1>7 DEF EfdDel1, EfdAdd1, First
  <2>3. InterestInv' /\ TimerInv' /\ ConnInv'
    BY <1>2, <1>5, <1>6, <2>1, CallTimer, CallConn, Constants
  <2>4. QueueFacts(sk, tm)'
    BY <1>2, <1>4, <1>7, <2>1, WorkerKnows, Constants
  <2>5. WorkerInv'
    BY <2>2, <2>4, QueueNext
  <2>q. QED  BY <1>2, <1>4, <2>3, <2>5, WorkerStepDone
<1>8. ASSUME NEW tm \in BOOLEAN, SockAdd2(s, tm), tm => TmrAhead, app.conn # "new", em[Sock].emee, em[Sock].ev # "none"
      PROVE  IndInv'
  <2>1. e = Sock /\ SockAdd1(z, tm)
    BY <1>2, <1>3, <1>8 DEF SockAdd2, First
  <2>2. InterestInv' /\ TimerInv'
    BY <1>2, <1>5, <1>6, <1>8, <2>1, CallTimer, Constants
  <2>3. ConnInv'
    <3>1. ConnInv /\ UNCHANGED <<app, pc, out, batch, cb, em>>
      BY <1>2 DEF IndInv, Local
    <3>q. QED  BY <1>8, <3>1 DEF ConnInv, NotYetRead
  <2>4. tm => TmrAhead'
    BY <1>2, <1>4, <1>8, <2>1, WorkerKnows, Constants
  <2>5. WorkerInv'
    BY <1>4, <1>8, <2>1, <2>4, SockNext
  <2>q. QED  BY <1>2, <1>4, <2>2, <2>3, <2>5, WorkerStepDone
<1>9. ASSUME TmrAdd2(s), TmrFacts, em[Tmr].emee, em[Tmr].ev # "none"
      PROVE  IndInv'
  <2>1. e = Tmr /\ TmrAdd1(z) /\ TmrKept
    BY <1>2, <1>3, <1>9 DEF TmrAdd2, First, TmrFacts
  <2>2. InterestInv' /\ TimerInv' /\ ConnInv' /\ TmrFacts'
    BY <1>2, <1>4, <1>5, <1>6, <1>9, <2>1, WorkerTimer, WorkerKnows, CallConn, Constants
  <2>3. WorkerInv'
    BY <2>1, <2>2, TmrNext
  <2>q. QED  BY <1>2, <1>4, <2>2, <2>3, WorkerStepDone
<1>10. ASSUME SockMod2(s), app.conn = "up", em[Sock].emee, em[Sock].ev # "none"
       PROVE  IndInv'
  <2>1. e = Sock /\ SockMod1(z)
    BY <1>2, <1>3, <1>10 DEF SockMod2, First
  <2>2. InterestInv' /\ TimerInv'
    BY <1>2, <1>5, <1>6, <1>10, <2>1, CallTimer, Constants
  <2>3. ConnInv'
    <3>1. ConnInv /\ UNCHANGED <<app, pc, out, batch, cb, em>>
      BY <1>2 DEF IndInv, Local
    <3>q. QED  BY <1>10, <3>1 DEF ConnInv, NotYetRead
  <2>5. WorkerInv'
    BY <1>4, <1>10, <2>1, ModNext
  <2>q. QED  BY <1>2, <1>4, <2>2, <2>3, <2>5, WorkerStepDone
<1>11. ASSUME TmrFacts, TmrDel1(s) \/ Off2(s) \/ (TmrBack1(s) /\ em[Tmr].emee /\ em[Tmr].ev # "none")
       PROVE  IndInv'
  <2>1. e = Tmr /\ (op = "Del" \/ (em[Tmr].emee /\ em[Tmr].ev # "none")) /\ TmrKept
    BY <1>3, <1>11 DEF TmrDel1, Off2, TmrBack1, First, TmrFacts
  <2>2. ((TmrFree(z) \/ Off1(z)) /\ Tmr \notin interest') \/ TmrUnlock(z)
    BY <1>2, <1>3, <1>11 DEF TmrDel1, Off2, TmrBack1, First
  <2>3. InterestInv' /\ TimerInv' /\ ConnInv' /\ TmrFacts'
    BY <1>2, <1>4, <1>5, <1>6, <1>11, <2>1, WorkerTimer, WorkerKnows, CallConn, Constants
  <2>4. WorkerInv'
    BY <2>2, <2>3, SettleNext
  <2>q. QED  BY <1>2, <1>4, <2>3, <2>4, WorkerStepDone
<1>q. QED  BY <1>1, <1>3, <1>7, <1>8, <1>9, <1>10, <1>11, WorkerShape

\* Every call of the worker.
LEMMA WorkerCall ==
    ASSUME IndInv, Call(Worker)
    PROVE  IndInv'
<1>1. ASSUME Write(Worker) \/ CloseStep(Worker)
      PROVE  FALSE
  <2>1. todo[Worker] # <<>> /\ Head(todo[Worker]).do \in {"write", "close"}
    BY <1>1 DEF Write, CloseStep, Doing
  <2>q. QED  BY <2>1, WorkerShape DEF IndInv
<1>q. QED  BY <1>1, WorkerTake, WorkerFind, WorkerFree, WorkerUnlock, WorkerTime, WorkerMark, WorkerCtl, WorkerActivate,
     WorkerSet DEF Call

-----------------------------------------------------------------------------
(* The calls of the application's thread.                                  *)

\* Which steps it may be doing, and what it then knows.
LEMMA AppShape ==
    ASSUME IndInv, todo[App] # <<>>
    PROVE  LET s == todo[App]
               do == Head(s).do
           IN
           /\ do \notin {"activate", "close", "release", "handled", "detached"}
           /\ do = "write" => AppWrite(s)
           /\ do = "post" => AppPost(s)
           /\ do = "take" => AppTake(s)
           /\ do = "find" => AppFind(s)
           /\ do = "free" => AppFree(s)
           /\ do = "unlock" => AppUnlock(s)
           /\ do = "time" => TimeOn(s)
           /\ do = "ctl" => On3(s) /\ em[Tmr].emee
           /\ do = "set" => On2(s) /\ em[Tmr].emee /\ em[Tmr].ev # "none"
           /\ do = "mark" => On1(s)
           /\ do # "write" => app.timer = "used" /\ ~app.entry
           /\ do \in {"take", "find", "free", "unlock", "time", "ctl", "set"} => Tmr \notin interest
           /\ ~app.registered => Tmr \notin interest
<1>1. AppInv /\ TimerInv
  BY DEF IndInv
<1>2. Arming(todo[App]) => app.timer = "used" /\ ~app.entry
  BY <1>1, AppApart DEF TimerInv
<1>3. On3(todo[App]) \/ On2(todo[App]) => em[Tmr].emee
  BY <1>1 DEF TimerInv
<1>4. On2(todo[App]) => em[Tmr].ev # "none"
  BY <1>1 DEF TimerInv
<1>5. ArmingOut(todo[App]) \/ ~app.registered => Tmr \notin interest
  BY <1>1 DEF TimerInv
<1> DEFINE s == todo[App]
<1>6. AppWrite(s) \/ AppPost(s) \/ On1(s) \/ On2(s) \/ On3(s) \/ TimeOn(s) \/ AppUnlock(s) \/ AppFree(s) \/ AppFind(s) \/ AppTake(s)
  BY <1>1 DEF AppInv, AppDone, Arming, ArmingOut
<1> HIDE DEF s
<1>7. /\ AppWrite(s) => Head(s).do = "write"
      /\ AppPost(s) => Head(s).do = "post"
      /\ On1(s) => Head(s).do = "mark"
      /\ On2(s) => Head(s).do = "set"
      /\ On3(s) => Head(s).do = "ctl"
      /\ TimeOn(s) => Head(s).do = "time"
      /\ AppUnlock(s) => Head(s).do = "unlock"
      /\ AppFree(s) => Head(s).do = "free"
      /\ AppFind(s) => Head(s).do = "find"
      /\ AppTake(s) => Head(s).do = "take"
  BY DEF AppWrite, AppPost, On1, On2, On3, TimeOn, AppUnlock, AppFree, AppFind, AppTake, First
<1>8. /\ Arming(s) <=> ArmingOut(s) \/ On1(s) \/ AppPost(s)
      /\ ArmingOut(s) <=> AppTake(s) \/ AppFind(s) \/ AppFree(s) \/ AppUnlock(s) \/ TimeOn(s) \/ On3(s) \/ On2(s)
  BY DEF Arming, ArmingOut
<1>q. QED  BY <1>2, <1>3, <1>4, <1>5, <1>6, <1>7, <1>8 DEF s

\* What its step does not touch.
AppFrame == PhaseInv' /\ LiveInv' /\ OwnerInv' /\ PostedInv' /\ ConnInv' /\ WorkerInv' /\ app' = app

\* The worker does not use the timer while it is armed, and the queue's events
\* keep what it knows when they are written.
LEMMA AppLeaves ==
    ASSUME IndInv, todo[App] # <<>>, Local(App), Arg(App) \in StepType,
           em'[Arg(App).e].live = em[Arg(App).e].live,
           \/ Arg(App).e = Efd /\ KeepsEvent(Efd) /\ UNCHANGED interest
           \/ Arg(App).e = Tmr /\ ~app.entry
    PROVE  AppFrame /\ alive /\ em[Tmr].live
<1>1. PhaseInv' /\ LiveInv' /\ ConnInv'
  BY CallPhase, CallLive, CallConn, Constants
<1>2. todo'[Worker] = todo[Worker] /\ todo'[Owner] = todo[Owner] /\ UNCHANGED <<pc, app>>
  BY Constants DEF Local
<1>3. \A x \in Events : em'[x].live = em[x].live
  BY AllLive, Constants
<1>4. pc.owner \notin {"detach", "join", "done"} /\ alive /\ em[Tmr].live
  BY DEF IndInv, PhaseInv, LiveInv
<1>5. OwnerInv /\ WorkerInv
  BY DEF IndInv
<1>6. OwnerInv'
  BY <1>2, <1>3, <1>4, <1>5, Constants DEF OwnerInv
<1>7. TmrKept /\ TmrKept'
  BY <1>2, <1>4 DEF TmrKept
<1>8. PostedInv'
  BY <1>7 DEF PostedInv
<1>9. /\ em'[Sock] = em[Sock] /\ (Sock \in interest' <=> Sock \in interest)
      /\ (Efd \in interest' <=> Efd \in interest) /\ em'[Efd].ev = em[Efd].ev /\ em'[Efd].emee = em[Efd].emee
  BY Constants DEF Local, KeepsEvent
<1>10. app.entry => em'[Tmr] = em[Tmr] /\ (Tmr \in interest' <=> Tmr \in interest)
  BY Constants DEF Local
<1>11. WorkerInv'
  <2> DEFINE s == todo[Worker]
  <2>1. ASSUME NEW sk \in BOOLEAN, NEW tm \in BOOLEAN, OfQueue(s, sk, tm), tm => TmrAhead
        PROVE  WorkerInv'
    <3>1. tm => TmrAhead'
      BY <1>2, <1>7, <1>10, <2>1 DEF TmrAhead
    <3>2. OfQueue(todo[Worker], sk, tm)'
      BY <1>2, <1>9, <2>1 DEF OfQueue
    <3>q. QED  BY <3>1, <3>2 DEF WorkerInv
  <2>2. ASSUME NEW tm \in BOOLEAN, OfSock(s, tm), tm => TmrAhead
        PROVE  WorkerInv'
    <3>1. tm => TmrAhead'
      BY <1>2, <1>7, <1>10, <2>2 DEF TmrAhead
    <3>2. OfSock(todo[Worker], tm)'
      BY <1>2, <1>9, <2>2 DEF OfSock
    <3>q. QED  BY <3>1, <3>2 DEF WorkerInv
  <2>3. ASSUME OfTmr(s)
        PROVE  WorkerInv'
    <3>1. app.entry
      BY <2>3 DEF OfTmr
    <3>2. em'[Tmr] = em[Tmr] /\ (Tmr \in interest' <=> Tmr \in interest)
      BY <1>10, <3>1
    <3>3. OfTmr(todo[Worker])'
      BY <1>2, <1>7, <3>2, <2>3 DEF OfTmr
    <3>q. QED  BY <3>3 DEF WorkerInv
  <2>4. ASSUME OfMod(s)
        PROVE  WorkerInv'
    <3>1. OfMod(todo[Worker])'
      BY <1>2, <1>9, <2>4 DEF OfMod
    <3>q. QED  BY <3>1 DEF WorkerInv
  <2>5. ASSUME OfSettle(s)
        PROVE  WorkerInv'
    <3>1. app.entry
      BY <2>5 DEF OfSettle
    <3>2. em'[Tmr] = em[Tmr] /\ (Tmr \in interest' <=> Tmr \in interest)
      BY <1>10, <3>1
    <3>3. OfSettle(todo[Worker])'
      BY <1>2, <1>7, <3>2, <2>5 DEF OfSettle
    <3>q. QED  BY <3>3 DEF WorkerInv
  <2>q. QED  BY <1>5, <2>1, <2>2, <2>3, <2>4, <2>5 DEF WorkerInv
<1>q. QED  BY <1>1, <1>2, <1>4, <1>6, <1>8, <1>11 DEF AppFrame

\* What is to be shown of a step of the application's thread.
LEMMA AppStepDone ==
    ASSUME IndInv, AppFrame, TypeInv', thrown' = thrown, InterestInv', TimerInv', AppInv'
    PROVE  IndInv'
  BY DEF IndInv, AppFrame

\* What is known of the timer after its next step.
LEMMA ArmingNext ==
    ASSUME IndInv, app.timer = "used", ~app.entry, app' = app,
           em'[Tmr].emee => em[Tmr].emee,
           em'[Tmr].counter = 0 \/ em'[Tmr].counter = em[Tmr].counter,
           LET z == todo'[App] IN
           \/ (AppFind(z) \/ AppFree(z) \/ AppUnlock(z) \/ TimeOn(z)) /\ Tmr \notin interest'
           \/ On3(z) /\ Tmr \notin interest' /\ em'[Tmr].emee
           \/ On2(z) /\ Tmr \notin interest' /\ em'[Tmr].emee /\ em'[Tmr].ev # "none"
           \/ (On1(z) \/ AppPost(z)) /\ (app.registered \/ Tmr \notin interest')
    PROVE  TimerInv' /\ AppInv'
<1>1. TimerInv
  BY DEF IndInv
<1>2. AppInv'
  BY DEF AppInv, Arming, ArmingOut
<1>3. ~app.registered => ~em'[Tmr].emee /\ em'[Tmr].counter = 0 /\ "READ" \notin app'.wire /\ (app'.entry <=> app'.posted)
  BY <1>1 DEF TimerInv
<1>4. ArmingOut(todo'[App]) \/ ~app.registered => Tmr \notin interest'
  BY AppApart
<1>5. /\ On3(todo'[App]) \/ On2(todo'[App]) => em'[Tmr].emee
      /\ On2(todo'[App]) => em'[Tmr].ev # "none"
  BY AppApart
<1>q. QED  BY <1>2, <1>3, <1>4, <1>5 DEF TimerInv

\* The application's thread wakes the queue.
LEMMA AppWrites ==
    ASSUME IndInv, Write(App)
    PROVE  IndInv'
<1> DEFINE e == Arg(App).e
           s == todo[App]
<1>1. TypeInv /\ TimerInv
  BY DEF IndInv
<1>2. /\ Doing(App, "write") /\ Arg(App) \in StepType
      /\ TypeInv' /\ Local(App) /\ KeepsEvent(e) /\ UNCHANGED <<interest, ready, thrown>>
      /\ todo'[App] = Tail(s)
  BY <1>1, WriteEffect, Constants
<1>3. s # <<>> /\ Head(s).do = "write" /\ Head(s).e = e
  BY <1>2 DEF Doing, Arg
<1>4. AppWrite(s) /\ e = Efd /\ todo'[App] = <<>>
  BY <1>2, <1>3, AppShape DEF AppWrite, First
<1>5. AppFrame /\ InterestInv'
  BY <1>2, <1>3, <1>4, AppLeaves, CallKeepsInterest, Constants DEF KeepsEvent
<1>6. AppDone(s) /\ AppDone(todo'[App]) /\ AppInv'
  BY <1>4 DEF AppDone, AppInv
<1>7. em'[Tmr] = em[Tmr] /\ app' = app
  BY <1>2, <1>4, Constants DEF Local
<1>8. TimerInv'
  BY <1>1, <1>2, <1>6, <1>7, AppApart DEF TimerInv
<1>q. QED  BY <1>2, <1>5, <1>6, <1>8, AppStepDone

\* Arming the timer begins with its counter, ...
LEMMA AppTakes ==
    ASSUME IndInv, ResetCounterVal(App)
    PROVE  IndInv'
<1> DEFINE e == Arg(App).e
           s == todo[App]
<1>1. TypeInv
  BY DEF IndInv
<1>2. /\ Doing(App, "take") /\ Arg(App) \in StepType
      /\ TypeInv' /\ Local(App) /\ KeepsEvent(e) /\ UNCHANGED <<interest, ready, thrown>>
      /\ em'[e].counter = 0
      /\ \/ todo'[App] = Tail(s)
         \/ First(todo'[App], "find", e, "") /\ Tail(todo'[App]) = Tail(s)
  BY <1>1, TakeEffect, Constants
<1>3. s # <<>> /\ Head(s).do = "take" /\ Head(s).e = e
  BY <1>2 DEF Doing, Arg
<1>4. AppTake(s) /\ app.timer = "used" /\ ~app.entry /\ Tmr \notin interest
  BY <1>3, AppShape
<1>5. e = Tmr /\ TimeOn(Tail(s))
  BY <1>3, <1>4 DEF AppTake, First
<1>6. AppFrame /\ InterestInv'
  BY <1>2, <1>3, <1>4, <1>5, AppLeaves, CallKeepsInterest, Constants DEF KeepsEvent
<1>7. (TimeOn(todo'[App]) \/ AppFind(todo'[App])) /\ Tmr \notin interest' /\ em'[Tmr].emee = em[Tmr].emee
  BY <1>2, <1>4, <1>5 DEF AppFind, KeepsEvent
<1>8. TimerInv' /\ AppInv'
  BY <1>2, <1>4, <1>5, <1>6, <1>7, ArmingNext DEF AppFrame
<1>q. QED  BY <1>2, <1>6, <1>8, AppStepDone

\* ... which is renewed out of interest_: the timer is idle and not in it, ...
LEMMA AppFinds ==
    ASSUME IndInv, RenewEv(App)
    PROVE  IndInv'
<1> DEFINE e == Arg(App).e
           s == todo[App]
<1>1. TypeInv
  BY DEF IndInv
<1>2. /\ Doing(App, "find") /\ Arg(App) \in StepType
      /\ TypeInv' /\ Local(App) /\ UNCHANGED <<em, interest, ready, thrown>>
      /\ ~(alive /\ em[e].emee /\ e \in interest) /\ e = Tmr /\ TimeOn(Tail(s)) => AppFree(todo'[App])
  BY <1>1, FindEffect, Constants
<1>3. s # <<>> /\ Head(s).do = "find" /\ Head(s).e = e
  BY <1>2 DEF Doing, Arg
<1>4. AppFind(s) /\ app.timer = "used" /\ ~app.entry /\ Tmr \notin interest
  BY <1>3, AppShape
<1>5. e = Tmr /\ TimeOn(Tail(s))
  BY <1>3, <1>4 DEF AppFind, First
<1>6. AppFrame /\ InterestInv'
  BY <1>2, <1>3, <1>4, <1>5, AppLeaves, CallInterest, Constants
<1>7. AppFree(todo'[App]) /\ Tmr \notin interest'
  BY <1>2, <1>4, <1>5
<1>8. TimerInv' /\ AppInv'
  BY <1>2, <1>4, <1>5, <1>6, <1>7, ArmingNext DEF AppFrame
<1>q. QED  BY <1>2, <1>6, <1>8, AppStepDone

\* ... its ev_ is freed, ...
LEMMA AppFrees ==
    ASSUME IndInv, FreeEv(App)
    PROVE  IndInv'
<1> DEFINE e == Arg(App).e
           s == todo[App]
<1>1. TypeInv
  BY DEF IndInv
<1>2. /\ Doing(App, "free") /\ Arg(App) \in StepType
      /\ TypeInv' /\ Local(App) /\ UNCHANGED <<interest, ready, thrown>>
      /\ em'[e].live = em[e].live /\ em'[e].flags = em[e].flags /\ em'[e].emee = em[e].emee
      /\ em'[e].counter = em[e].counter
      /\ todo'[App] = Tail(s)
  BY <1>1, FreeEffect, Constants
<1>3. s # <<>> /\ Head(s).do = "free" /\ Head(s).e = e
  BY <1>2 DEF Doing, Arg
<1>4. AppFree(s) /\ app.timer = "used" /\ ~app.entry /\ Tmr \notin interest
  BY <1>3, AppShape
<1>5. e = Tmr /\ AppUnlock(Tail(s))
  BY <1>3, <1>4 DEF AppFree, First
<1>6. AppFrame /\ InterestInv'
  BY <1>2, <1>3, <1>4, <1>5, AppLeaves, CallInterest, Constants
<1>7. AppUnlock(todo'[App]) /\ Tmr \notin interest'
  BY <1>2, <1>4, <1>5
<1>8. TimerInv' /\ AppInv'
  BY <1>2, <1>4, <1>5, <1>6, <1>7, ArmingNext DEF AppFrame
<1>q. QED  BY <1>2, <1>6, <1>8, AppStepDone

\* ... the counter is unlocked, ...
LEMMA AppUnlocks ==
    ASSUME IndInv, UnlockCounter(App)
    PROVE  IndInv'
<1> DEFINE e == Arg(App).e
           s == todo[App]
<1>1. TypeInv
  BY DEF IndInv
<1>2. /\ Doing(App, "unlock") /\ Arg(App) \in StepType
      /\ TypeInv' /\ Local(App) /\ UNCHANGED <<em, interest, ready, thrown>>
      /\ todo'[App] = Tail(s)
  BY <1>1, UnlockEffect, Constants
<1>3. s # <<>> /\ Head(s).do = "unlock" /\ Head(s).e = e
  BY <1>2 DEF Doing, Arg
<1>4. AppUnlock(s) /\ app.timer = "used" /\ ~app.entry /\ Tmr \notin interest
  BY <1>3, AppShape
<1>5. e = Tmr /\ TimeOn(Tail(s))
  BY <1>3, <1>4 DEF AppUnlock, First
<1>6. AppFrame /\ InterestInv'
  BY <1>2, <1>3, <1>4, <1>5, AppLeaves, CallInterest, Constants
<1>7. TimeOn(todo'[App]) /\ Tmr \notin interest'
  BY <1>2, <1>4, <1>5
<1>8. TimerInv' /\ AppInv'
  BY <1>2, <1>4, <1>5, <1>6, <1>7, ArmingNext DEF AppFrame
<1>q. QED  BY <1>2, <1>6, <1>8, AppStepDone

\* ... the time is set, and a timer that had a poller is added again, ...
LEMMA AppTimes ==
    ASSUME IndInv, SettimeStep(App)
    PROVE  IndInv'
<1> DEFINE e == Arg(App).e
           s == todo[App]
           z == todo'[App]
<1>1. TypeInv
  BY DEF IndInv
<1>2. /\ Doing(App, "time") /\ Arg(App) \in StepType
      /\ TypeInv' /\ Local(App) /\ KeepsEvent(e) /\ UNCHANGED <<interest, ready, thrown>>
      /\ em'[e].counter = em[e].counter
      /\ e = Tmr /\ Arg(App).op = "on" /\ em[e].emee =>
           First(z, "ctl", Tmr, "Add") /\ First(Tail(z), "set", Tmr, "Add")
           /\ First(Tail(Tail(z)), "mark", Tmr, "artificial") /\ Tail(Tail(Tail(z))) = Tail(s)
      /\ Arg(App).op = "on" /\ ~em[e].emee => z = Tail(s)
  BY <1>1, TimeEffect, Constants
<1>3. s # <<>> /\ Head(s).do = "time" /\ Head(s) = Arg(App)
  BY <1>2 DEF Doing, Arg
<1>4. TimeOn(s) /\ app.timer = "used" /\ ~app.entry /\ Tmr \notin interest
  BY <1>3, AppShape
<1>5. e = Tmr /\ Arg(App).op = "on" /\ AppPost(Tail(s))
  BY <1>3, <1>4 DEF TimeOn, First
<1>6. AppFrame /\ InterestInv'
  BY <1>2, <1>3, <1>4, <1>5, AppLeaves, CallKeepsInterest, Constants DEF KeepsEvent
<1>7. (On3(z) /\ em[Tmr].emee) \/ AppPost(z)
  BY <1>2, <1>5 DEF On3, On2, On1
<1>71. em'[Tmr].emee = em[Tmr].emee /\ Tmr \notin interest'
  BY <1>2, <1>4, <1>5 DEF KeepsEvent
<1>8. TimerInv' /\ AppInv'
  BY <1>2, <1>4, <1>5, <1>6, <1>7, <1>71, ArmingNext DEF AppFrame
<1>q. QED  BY <1>2, <1>6, <1>8, AppStepDone

\* ... artificially, for the worker may then add it for good.
LEMMA AppMarks ==
    ASSUME IndInv, MarkArtificial(App)
    PROVE  IndInv'
<1> DEFINE e == Arg(App).e
           s == todo[App]
<1>1. TypeInv
  BY DEF IndInv
<1>2. /\ Doing(App, "mark") /\ Arg(App) \in StepType
      /\ TypeInv' /\ Local(App) /\ KeepsEvent(e) /\ UNCHANGED <<interest, ready, thrown>>
      /\ em'[e].counter = em[e].counter
      /\ todo'[App] = Tail(s)
  BY <1>1, MarkEffect, Constants
<1>3. s # <<>> /\ Head(s).do = "mark" /\ Head(s).e = e
  BY <1>2 DEF Doing, Arg
<1>4. On1(s) /\ app.timer = "used" /\ ~app.entry /\ (~app.registered => Tmr \notin interest)
  BY <1>3, AppShape
<1>5. e = Tmr /\ AppPost(Tail(s))
  BY <1>3, <1>4 DEF On1, First
<1>6. AppFrame /\ InterestInv'
  BY <1>2, <1>3, <1>4, <1>5, AppLeaves, CallKeepsInterest, Constants DEF KeepsEvent
<1>7. AppPost(todo'[App]) /\ (app.registered \/ Tmr \notin interest') /\ em'[Tmr].emee = em[Tmr].emee
  BY <1>2, <1>4, <1>5 DEF KeepsEvent
<1>8. TimerInv' /\ AppInv'
  BY <1>2, <1>4, <1>5, <1>6, <1>7, ArmingNext DEF AppFrame
<1>q. QED  BY <1>2, <1>6, <1>8, AppStepDone

\* The artificial add does not meet EEXIST: the timer is not in interest_.
LEMMA AppCtl ==
    ASSUME IndInv, CtlStep(App)
    PROVE  IndInv'
<1> DEFINE e == Arg(App).e
           s == todo[App]
<1>1. TypeInv
  BY DEF IndInv
<1>2. s # <<>> /\ Head(s).do = "ctl" /\ Head(s) = Arg(App)
  BY DEF CtlStep, Doing, Arg
<1>3. On3(s) /\ em[Tmr].emee /\ app.timer = "used" /\ ~app.entry /\ Tmr \notin interest
  BY <1>2, AppShape
<1>4. e = Tmr /\ On2(Tail(s)) /\ ~AlreadyThere(e, Arg(App).op)
  BY <1>2, <1>3 DEF On3, First, AlreadyThere
<1>5. /\ Arg(App) \in StepType
      /\ TypeInv' /\ Local(App) /\ UNCHANGED <<interest, ready, thrown>>
      /\ em'[e].live = em[e].live /\ em'[e].ev # "none" /\ em'[e].emee
      /\ em'[e].counter = em[e].counter
      /\ todo'[App] = Tail(s)
  BY <1>1, <1>4, CtlEffect, Constants
<1>6. AppFrame /\ InterestInv'
  BY <1>2, <1>3, <1>4, <1>5, AppLeaves, CallInterest, Constants
<1>7. On2(todo'[App]) /\ Tmr \notin interest'
  BY <1>3, <1>4, <1>5
<1>8. TimerInv' /\ AppInv'
  BY <1>3, <1>4, <1>5, <1>6, <1>7, ArmingNext DEF AppFrame
<1>q. QED  BY <1>5, <1>6, <1>8, AppStepDone

\* It puts a living timer in interest_, with its ev_ added.
LEMMA AppSet ==
    ASSUME IndInv, InterestStep(App)
    PROVE  IndInv'
<1> DEFINE e == Arg(App).e
           s == todo[App]
<1>1. TypeInv /\ TimerInv
  BY DEF IndInv
<1>2. /\ Doing(App, "set") /\ Arg(App) \in StepType
      /\ TypeInv' /\ Local(App) /\ UNCHANGED <<em, thrown>>
      /\ todo'[App] = Tail(s)
  BY <1>1, SetEffect, Constants
<1>3. s # <<>> /\ Head(s).do = "set" /\ Head(s).e = e
  BY <1>2 DEF Doing, Arg
<1>4. On2(s) /\ em[Tmr].emee /\ em[Tmr].ev # "none" /\ app.timer = "used" /\ ~app.entry
  BY <1>3, AppShape
<1>5. e = Tmr /\ On1(Tail(s))
  BY <1>3, <1>4 DEF On2, First
<1>6. AppFrame /\ alive /\ em[Tmr].live
  BY <1>2, <1>3, <1>4, <1>5, AppLeaves, Constants
<1>7. InterestInv'
  BY <1>4, <1>5, <1>6, SetInterest, Constants
<1>8. app.registered
  BY <1>1, <1>4 DEF TimerInv
<1>9. TimerInv' /\ AppInv'
  BY <1>2, <1>4, <1>5, <1>6, <1>8, ArmingNext DEF AppFrame
<1>q. QED  BY <1>2, <1>6, <1>7, <1>9, AppStepDone

\* Every call of the application's thread.
LEMMA AppCall ==
    ASSUME IndInv, Call(App)
    PROVE  IndInv'
<1>1. ASSUME CtrActivate(App) \/ CloseStep(App)
      PROVE  FALSE
  <2>1. todo[App] # <<>> /\ Head(todo[App]).do \in {"activate", "close"}
    BY <1>1 DEF CtrActivate, CloseStep, Doing
  <2>q. QED  BY <2>1, AppShape
<1>q. QED  BY <1>1, AppWrites, AppTakes, AppFinds, AppFrees, AppUnlocks, AppTimes, AppMarks, AppCtl, AppSet DEF Call

-----------------------------------------------------------------------------
(* The owner's calls.                                                      *)

\* What the owner may have to do next.
LEMMA OwnerNext ==
    ASSUME LET z == todo'[Owner] IN
           \/ z = <<>>
           \/ ShutWrite(z) /\ pc'.owner = "close"
           \/ SockClose(z) /\ pc'.owner = "drop" /\ app'.stop /\ em'[Sock].live
           \/ SockHandled(z) /\ pc'.owner = "drop" /\ app'.stop
           \/ PoolClose(z) /\ pc'.owner = "detach" /\ em'[Tmr].live
           \/ Detaching(z) /\ pc'.owner = "join"
           \/ TmrClose(z) /\ pc'.owner = "join" /\ em'[Tmr].live
           \/ pc'.owner = "join" /\ \E tm \in BOOLEAN : Unbinding(z, tm) /\ em'[Efd].live /\ (tm => em'[Tmr].live)
           \/ SfdClose(z) /\ pc'.owner = "done" /\ em'[Sfd].live /\ em'[Sfd].ev = "none"
    PROVE  OwnerInv'
<1> DEFINE z == todo'[Owner]
<1>1. /\ z = <<>> => ~SockClose(z)
      /\ ShutWrite(z) \/ SockHandled(z) \/ PoolClose(z) \/ Detaching(z) \/ TmrClose(z) \/ SfdClose(z) => ~SockClose(z)
      /\ \A tm \in BOOLEAN : Unbinding(z, tm) => ~SockClose(z)
  BY Constants DEF SockClose, ShutWrite, SockHandled, PoolClose, Detaching, TmrClose, SfdClose, Unbinding, Unbind1, Unbind2,
     Unbind3, Unbind4, QueueClose, First
<1>2. SockClose(z) => em'[Sock].live
  BY <1>1
<1>q. QED  BY <1>2 DEF OwnerInv

\* Which steps the owner may be doing, and what it then knows.
LEMMA OwnerShape ==
    ASSUME IndInv, todo[Owner] # <<>>
    PROVE  LET s == todo[Owner]
               do == Head(s).do
           IN
           /\ do \in {"write", "close", "ctl", "activate", "set", "mark", "handled", "detached"}
           /\ do = "write" => ShutWrite(s) /\ pc.owner = "close"
           /\ do = "close" =>
                \/ SockClose(s) /\ pc.owner = "drop" /\ app.stop
                \/ PoolClose(s) /\ pc.owner = "detach"
                \/ TmrClose(s) /\ pc.owner = "join"
                \/ pc.owner = "join" /\ \E tm \in BOOLEAN : QueueClose(s, tm) /\ (tm => em[Tmr].live)
                \/ SfdClose(s) /\ pc.owner = "done"
           /\ do \in {"ctl", "activate", "set", "mark"} =>
                pc.owner = "join" /\ em[Efd].live /\
                \E tm \in BOOLEAN : /\ tm => em[Tmr].live
                                    /\ do = "ctl" => Unbind4(s, tm)
                                    /\ do = "activate" => Unbind3(s, tm)
                                    /\ do = "set" => Unbind2(s, tm)
                                    /\ do = "mark" => Unbind1(s, tm)
           /\ do = "handled" => SockHandled(s) /\ pc.owner = "drop"
           /\ do = "detached" => Detaching(s) /\ pc.owner = "join"
<1> DEFINE s == todo[Owner]
           do == Head(s).do
<1>1. OwnerInv /\ pc.owner \in {"run", "close", "drop", "detach", "join", "done"}
  BY DEF IndInv, TypeInv, TypeOK
<1>2. \/ ShutWrite(s) /\ pc.owner = "close"
      \/ (SockClose(s) \/ SockHandled(s)) /\ pc.owner = "drop" /\ app.stop
      \/ PoolClose(s) /\ pc.owner = "detach"
      \/ (Detaching(s) \/ TmrClose(s)) /\ pc.owner = "join"
      \/ pc.owner = "join" /\ \E tm \in BOOLEAN : Unbinding(s, tm) /\ em[Efd].live /\ (tm => em[Tmr].live)
      \/ SfdClose(s) /\ pc.owner = "done"
  BY <1>1 DEF OwnerInv
<1>3. /\ ShutWrite(s) => do = "write"
      /\ SockClose(s) \/ PoolClose(s) \/ TmrClose(s) \/ SfdClose(s) => do = "close"
      /\ SockHandled(s) => do = "handled"
      /\ Detaching(s) => do = "detached"
  BY DEF SockClose, ShutWrite, SockHandled, PoolClose, Detaching, TmrClose, SfdClose, First
<1>4. ASSUME NEW tm \in BOOLEAN, Unbinding(s, tm)
      PROVE  /\ do \in {"ctl", "activate", "set", "mark", "close"}
             /\ do = "ctl" => Unbind4(s, tm)
             /\ do = "activate" => Unbind3(s, tm)
             /\ do = "set" => Unbind2(s, tm)
             /\ do = "mark" => Unbind1(s, tm)
             /\ do = "close" => QueueClose(s, tm)
  BY <1>4 DEF Unbinding, Unbind1, Unbind2, Unbind3, Unbind4, QueueClose, First
<1> HIDE DEF s, do
<1>5. CASE ~\E tm \in BOOLEAN : Unbinding(s, tm) /\ em[Efd].live /\ (tm => em[Tmr].live)
  BY <1>2, <1>3, <1>5 DEF s, do
<1>6. CASE pc.owner = "join" /\ \E tm \in BOOLEAN : Unbinding(s, tm) /\ em[Efd].live /\ (tm => em[Tmr].live)
  <2>1. PICK tm \in BOOLEAN : Unbinding(s, tm) /\ em[Efd].live /\ (tm => em[Tmr].live)
    BY <1>6
  <2>q. QED  BY <1>4, <1>6, <2>1 DEF s, do
<1>7. CASE pc.owner # "join"
  BY <1>2, <1>3, <1>7 DEF s, do
<1>q. QED  BY <1>5, <1>6, <1>7

\* What its step does not touch.
OwnerFrame == PhaseInv' /\ AppInv' /\ PostedInv' /\ WorkerInv' /\ app' = app /\ pc' = pc

\* The worker has nothing to do with an event that the owner closes.
LEMMA OwnerLeaves ==
    ASSUME IndInv, todo[Owner] # <<>>, Local(Owner), Arg(Owner) \in StepType,
           \/ Arg(Owner).e = Sfd /\ pc.owner = "close"
           \/ Arg(Owner).e = Sock /\ app.stop /\ pc.owner = "drop"
           \/ Arg(Owner).e = Tmr /\ pc.owner = "detach"
           \/ pc.owner \in {"join", "done"}
    PROVE  OwnerFrame
<1>1. PhaseInv'
  BY CallPhase, Constants
<1>2. todo'[Worker] = todo[Worker] /\ todo'[App] = todo[App] /\ UNCHANGED <<pc, app>>
  BY Constants DEF Local
<1>3. AppInv'
  BY <1>2 DEF IndInv, AppInv
<1>4. PostedInv'
  <2>1. pc.owner # "detach" => TmrKept'
    BY <1>2 DEF TmrKept
  <2>2. pc.owner = "detach" => ~TmrKept
    BY DEF TmrKept
  <2>q. QED  BY <1>2, <2>1, <2>2 DEF IndInv, PostedInv
<1>5. CASE todo[Worker] = <<>>
  <2>1. WorkerInv'
    BY <1>2, <1>5, NothingNext
  <2>q. QED  BY <1>1, <1>2, <1>3, <1>4, <2>1 DEF OwnerFrame
<1>6. CASE todo[Worker] # <<>>
  <2>1. pc.worker = "handle" /\ ~app.stop /\ pc.owner \notin {"join", "done"}
    BY <1>6 DEF IndInv, PhaseInv
  <2>2. \/ Arg(Owner).e = Sfd /\ pc.owner = "close"
        \/ Arg(Owner).e = Tmr /\ pc.owner = "detach"
    BY <2>1
  <2>3. /\ em'[Sock] = em[Sock] /\ (Sock \in interest' <=> Sock \in interest)
        /\ em'[Efd] = em[Efd] /\ (Efd \in interest' <=> Efd \in interest)
    BY <2>2, Constants DEF Local
  <2>4. TmrKept => em'[Tmr] = em[Tmr] /\ (Tmr \in interest' <=> Tmr \in interest) /\ TmrKept'
    BY <1>2, <2>2, Constants DEF Local, TmrKept
  <2>5. WorkerInv
    BY DEF IndInv
  <2>6. WorkerInv'
    <3> DEFINE s == todo[Worker]
    <3>1. ASSUME NEW sk \in BOOLEAN, NEW tm \in BOOLEAN, OfQueue(s, sk, tm), tm => TmrAhead
          PROVE  WorkerInv'
      <4>1. tm => TmrAhead'
        BY <1>2, <2>4, <3>1 DEF TmrAhead
      <4>2. OfQueue(todo[Worker], sk, tm)'
        BY <1>2, <2>3, <3>1 DEF OfQueue
      <4>q. QED  BY <4>1, <4>2 DEF WorkerInv
    <3>2. ASSUME NEW tm \in BOOLEAN, OfSock(s, tm), tm => TmrAhead
          PROVE  WorkerInv'
      <4>1. tm => TmrAhead'
        BY <1>2, <2>4, <3>2 DEF TmrAhead
      <4>2. OfSock(todo[Worker], tm)'
        BY <1>2, <2>3, <3>2 DEF OfSock
      <4>q. QED  BY <4>1, <4>2 DEF WorkerInv
    <3>3. ASSUME OfTmr(s)
          PROVE  WorkerInv'
      <4>1. TmrKept
        BY <3>3 DEF OfTmr
      <4>2. em'[Tmr] = em[Tmr] /\ (Tmr \in interest' <=> Tmr \in interest) /\ TmrKept'
        BY <2>4, <4>1
      <4>3. OfTmr(todo[Worker])'
        BY <1>2, <3>3, <4>2 DEF OfTmr
      <4>q. QED  BY <4>3 DEF WorkerInv
    <3>4. ASSUME OfMod(s)
          PROVE  WorkerInv'
      <4>1. OfMod(todo[Worker])'
        BY <1>2, <2>3, <3>4 DEF OfMod
      <4>q. QED  BY <4>1 DEF WorkerInv
    <3>5. ASSUME OfSettle(s)
          PROVE  WorkerInv'
      <4>1. TmrKept
        BY <3>5 DEF OfSettle
      <4>2. em'[Tmr] = em[Tmr] /\ (Tmr \in interest' <=> Tmr \in interest) /\ TmrKept'
        BY <2>4, <4>1
      <4>3. OfSettle(todo[Worker])'
        BY <1>2, <3>5, <4>2 DEF OfSettle
      <4>q. QED  BY <4>3 DEF WorkerInv
    <3>q. QED  BY <2>5, <3>1, <3>2, <3>3, <3>4, <3>5 DEF WorkerInv
  <2>q. QED  BY <1>1, <1>2, <1>3, <1>4, <2>6 DEF OwnerFrame
<1>q. QED  BY <1>5, <1>6

\* What is to be shown of a step of the owner.
LEMMA OwnerStepDone ==
    ASSUME IndInv, OwnerFrame, TypeInv', thrown' = thrown, InterestInv', LiveInv', TimerInv', ConnInv', OwnerInv'
    PROVE  IndInv'
  BY DEF IndInv, OwnerFrame

\* The owner wakes the reactor to have it stop.
LEMMA OwnerWrites ==
    ASSUME IndInv, Write(Owner)
    PROVE  IndInv'
<1> DEFINE e == Arg(Owner).e
           s == todo[Owner]
<1>1. TypeInv
  BY DEF IndInv
<1>2. /\ Doing(Owner, "write") /\ Arg(Owner) \in StepType
      /\ TypeInv' /\ Local(Owner) /\ KeepsEvent(e) /\ UNCHANGED <<interest, ready, thrown>>
      /\ todo'[Owner] = Tail(s)
  BY <1>1, WriteEffect, Constants
<1>3. s # <<>> /\ Head(s).do = "write" /\ Head(s).e = e
  BY <1>2 DEF Doing, Arg
<1>4. ShutWrite(s) /\ pc.owner = "close"
  BY <1>3, OwnerShape
<1>5. e = Sfd /\ todo'[Owner] = <<>>
  BY <1>2, <1>3, <1>4 DEF ShutWrite, First
<1>6. OwnerFrame
  BY <1>2, <1>3, <1>4, <1>5, OwnerLeaves
<1>7. InterestInv' /\ TimerInv' /\ ConnInv' /\ LiveInv'
  BY <1>2, <1>5, CallKeepsInterest, CallTimer, CallConn, CallLive, Constants DEF KeepsEvent
<1>8. OwnerInv'
  BY <1>5, OwnerNext
<1>q. QED  BY <1>2, <1>6, <1>7, <1>8, OwnerStepDone

\* Detaching the queue.
LEMMA OwnerUnbinds ==
    ASSUME IndInv, CtlStep(Owner) \/ CtrActivate(Owner) \/ InterestStep(Owner) \/ MarkArtificial(Owner)
    PROVE  IndInv'
<1> DEFINE e == Arg(Owner).e
           s == todo[Owner]
           do == Head(s).do
<1>1. TypeInv
  BY DEF IndInv
<1>2. s # <<>> /\ Head(s) = Arg(Owner) /\ do \in {"ctl", "activate", "set", "mark"}
  BY DEF CtlStep, CtrActivate, InterestStep, MarkArtificial, Doing, Arg
<1>3. pc.owner = "join" /\ em[Efd].live
  BY <1>2, OwnerShape
<1>4. PICK tm \in BOOLEAN : /\ tm => em[Tmr].live
                            /\ do = "ctl" => Unbind4(s, tm)
                            /\ do = "activate" => Unbind3(s, tm)
                            /\ do = "set" => Unbind2(s, tm)
                            /\ do = "mark" => Unbind1(s, tm)
  BY <1>2, OwnerShape
<1>5. e = Efd /\ (do \in {"ctl", "set"} => Arg(Owner).op = "Del")
  BY <1>2, <1>4 DEF Unbind4, Unbind3, Unbind2, Unbind1, First
<1>6. Unbinding(Tail(s), tm)
  BY <1>2, <1>4 DEF Unbind4, Unbind3, Unbind2, Unbind1, Unbinding
<1>7. ASSUME Arg(Owner) \in StepType, TypeInv', Local(Owner), thrown' = thrown, todo'[Owner] = Tail(s), InterestInv',
             em'[e].live = em[e].live
      PROVE  IndInv'
  <2>1. OwnerFrame
    BY <1>2, <1>3, <1>7, OwnerLeaves
  <2>2. TimerInv' /\ ConnInv' /\ LiveInv'
    BY <1>5, <1>7, CallTimer, CallConn, CallLive, Constants
  <2>3. pc'.owner = "join" /\ em'[Efd].live /\ (tm => em'[Tmr].live)
    BY <1>3, <1>4, <1>5, <1>7, Constants DEF Local
  <2>4. OwnerInv'
    BY <1>6, <1>7, <2>3, OwnerNext
  <2>q. QED  BY <1>7, <2>1, <2>2, <2>4, OwnerStepDone
<1>8. CASE CtlStep(Owner)
  <2>1. do = "ctl"
    BY <1>8 DEF CtlStep, Doing
  <2>2. ~AlreadyThere(e, Arg(Owner).op)
    BY <1>5, <2>1 DEF AlreadyThere
  <2>3. /\ Arg(Owner) \in StepType
        /\ TypeInv' /\ Local(Owner) /\ UNCHANGED <<interest, ready, thrown>>
        /\ em'[e].live = em[e].live /\ em'[e].ev # "none" /\ em'[e].emee
        /\ todo'[Owner] = Tail(s)
    BY <1>1, <1>8, <2>2, CtlEffect, Constants
  <2>4. InterestInv'
    BY <1>5, <2>3, CallInterest, Constants
  <2>q. QED  BY <1>7, <2>3, <2>4
<1>9. CASE CtrActivate(Owner)
  <2>1. /\ Arg(Owner) \in StepType
        /\ TypeInv' /\ Local(Owner) /\ KeepsEvent(e) /\ UNCHANGED <<interest, ready, thrown>>
        /\ todo'[Owner] = Tail(s)
    BY <1>1, <1>9, ActivateEffect, Constants
  <2>2. InterestInv' /\ em'[e].live = em[e].live
    BY <2>1, CallKeepsInterest, Constants DEF KeepsEvent
  <2>q. QED  BY <1>7, <2>1, <2>2
<1>10. CASE InterestStep(Owner)
  <2>1. do = "set"
    BY <1>10 DEF InterestStep, Doing
  <2>2. /\ Arg(Owner) \in StepType
        /\ TypeInv' /\ Local(Owner) /\ UNCHANGED <<em, thrown>>
        /\ todo'[Owner] = Tail(s)
    BY <1>1, <1>10, SetEffect, Constants
  <2>3. InterestInv'
    BY <1>5, <1>10, <2>1, SetInterest, Constants
  <2>q. QED  BY <1>7, <2>2, <2>3
<1>11. CASE MarkArtificial(Owner)
  <2>1. /\ Arg(Owner) \in StepType
        /\ TypeInv' /\ Local(Owner) /\ KeepsEvent(e) /\ UNCHANGED <<interest, ready, thrown>>
        /\ todo'[Owner] = Tail(s)
    BY <1>1, <1>11, MarkEffect, Constants
  <2>2. InterestInv' /\ em'[e].live = em[e].live
    BY <2>1, CallKeepsInterest, Constants DEF KeepsEvent
  <2>q. QED  BY <1>7, <2>1, <2>2
<1>q. QED  BY <1>8, <1>9, <1>10, <1>11

\* An event that is closed is in none of the poller's sets.
LEMMA CloseInterest ==
    ASSUME IndInv, NEW t \in Threads, CloseStep(t), Arg(t).e # Sfd \/ ~alive
    PROVE  /\ InterestInv' /\ interest' \subseteq interest
           /\ Arg(t).e \notin interest'
<1> DEFINE e == Arg(t).e
<1>1. /\ Local(t) /\ lock["interest"] = Free /\ Arg(t) \in StepType
      /\ em'[e].flags = em[e].flags
      /\ interest' = IF alive /\ em[e].emee /\ e \in interest THEN interest \ {e} ELSE interest
      /\ ready' = IF alive /\ em[e].emee /\ e \in interest THEN ready \ {e} ELSE ready
  BY CloseEffect DEF IndInv
<1>2. InterestInv /\ UNCHANGED <<out, alive, pc, cb>>
  BY <1>1 DEF IndInv, Local
<1>3. pc.worker # "tick" /\ out = {}
  BY <1>1 DEF IndInv, PhaseInv, Free, Worker
<1>4. interest' = interest \ {e} /\ ready' = ready \ {e}
  BY <1>1, <1>2 DEF InterestInv
<1>5. \A x \in Events : x # e => em'[x] = em[x]
  BY <1>1 DEF Local
<1>6. interest \subseteq Events
  BY DEF IndInv, TypeInv, TypeOK
<1>7. em'[Sfd].flags = em[Sfd].flags
  BY <1>1, <1>5, Constants
<1> HIDE DEF e
<1>8. \A x \in interest' : em'[x] = em[x]
  BY <1>4, <1>5, <1>6
<1>9. InterestInv'
  <2>1. \A x \in interest' : em[x].live /\ em[x].emee /\ em[x].ev # "none"
    BY <1>2, <1>4 DEF InterestInv
  <2>2. alive => Sfd \in interest'
    BY <1>2, <1>4 DEF InterestInv, e
  <2>3. \A x \in interest' : em'[x].live /\ em'[x].emee /\ em'[x].ev # "none"
    BY <1>8, <2>1
  <2>4. ready' \subseteq interest' /\ out' = {}
    BY <1>2, <1>3, <1>4 DEF InterestInv
  <2>q. QED  BY <1>2, <1>3, <1>4, <1>7, <2>2, <2>3, <2>4 DEF InterestInv
<1>q. QED  BY <1>4, <1>9 DEF e

\* An event is closed only where no thread uses it any more: the socket once the
\* handling stopped, the timer when nothing holds it, the queue and its timer
\* between two polls, the reactor's descriptor after the poller.
LEMMA OwnerCloses ==
    ASSUME IndInv, CloseStep(Owner)
    PROVE  IndInv'
<1> DEFINE e == Arg(Owner).e
           s == todo[Owner]
           z == todo'[Owner]
<1>1. TypeInv /\ TimerInv /\ ConnInv /\ LiveInv /\ PhaseInv
  BY DEF IndInv
<1>2. /\ Doing(Owner, "close") /\ Arg(Owner) \in StepType
      /\ TypeInv' /\ Local(Owner) /\ UNCHANGED thrown
      /\ ~em'[e].live /\ em'[e].active = {} /\ em'[e].flags = em[e].flags
      /\ em'[e].emee = em[e].emee /\ em'[e].readyFlags = em[e].readyFlags
      /\ em'[e].counter = em[e].counter
      /\ z = Tail(s)
  BY <1>1, CloseEffect, Constants
<1>3. s # <<>> /\ Head(s).do = "close" /\ Head(s).e = e
  BY <1>2 DEF Doing, Arg
<1>4. \/ SockClose(s) /\ pc.owner = "drop" /\ app.stop
      \/ PoolClose(s) /\ pc.owner = "detach"
      \/ TmrClose(s) /\ pc.owner = "join"
      \/ pc.owner = "join" /\ \E tm \in BOOLEAN : QueueClose(s, tm) /\ (tm => em[Tmr].live)
      \/ SfdClose(s) /\ pc.owner = "done"
  BY <1>3, OwnerShape
<1>5. /\ SockClose(s) => e = Sock /\ SockHandled(Tail(s))
      /\ PoolClose(s) => e = Tmr /\ Tail(s) = <<>>
      /\ TmrClose(s) => e = Tmr /\ Detaching(Tail(s))
      /\ SfdClose(s) => e = Sfd /\ Tail(s) = <<>>
      /\ \A tm \in BOOLEAN : QueueClose(s, tm) => e = Efd /\ AfterQueue(Tail(s), tm)
  BY <1>3 DEF SockClose, PoolClose, TmrClose, SfdClose, QueueClose, First
<1>6. \/ e = Sock /\ app.stop /\ pc.owner = "drop"
      \/ e = Tmr /\ pc.owner \in {"detach", "join"}
      \/ e = Efd /\ pc.owner = "join"
      \/ e = Sfd /\ pc.owner = "done"
  BY <1>4, <1>5
<1>7. OwnerFrame /\ app' = app /\ pc' = pc
  BY <1>2, <1>3, <1>6, OwnerLeaves DEF OwnerFrame
<1>8. InterestInv' /\ interest' \subseteq interest
  <2>1. e # Sfd \/ ~alive
    BY <1>1, <1>6, Constants DEF PhaseInv
  <2>q. QED  BY <2>1, CloseInterest, Constants
<1>9. \A x \in Events : x # e => em'[x] = em[x]
  BY <1>2 DEF Local
<1>10. LiveInv'
  BY <1>1, <1>6, <1>7, <1>9, Constants DEF LiveInv
<1>11. TimerInv'
  <2>1. CASE e # Tmr
    BY <1>2, <2>1, CallTimer, Constants
  <2>2. CASE e = Tmr
    <3>1. todo[App] = <<>> /\ todo'[App] = <<>>
      BY <1>1, <1>2, <1>6, <2>2, Constants DEF PhaseInv, Local
    <3>2. AppDone(<<>>)
      BY DEF AppDone
    <3>3. Tmr \in interest' => Tmr \in interest
      BY <1>8
    <3>q. QED  BY <1>1, <1>2, <1>7, <2>2, <3>1, <3>2, <3>3, AppApart DEF TimerInv
  <2>q. QED  BY <2>1, <2>2
<1>12. ConnInv'
  <2>1. CASE e # Sock
    BY <1>2, <2>1, CallConn, Constants
  <2>2. CASE e = Sock
    <3>1. UNCHANGED <<out, batch, cb>>
      BY <1>2 DEF Local
    <3>q. QED  BY <1>1, <1>2, <1>7, <1>8, <2>2, <3>1 DEF ConnInv, NotYetRead
  <2>q. QED  BY <2>1, <2>2
<1>13. OwnerInv'
  <2>1. CASE pc.owner # "join"
    BY <1>2, <1>4, <1>5, <1>7, <2>1, OwnerNext
  <2>2. CASE pc.owner = "join" /\ TmrClose(s)
    BY <1>2, <1>5, <1>7, <2>2, OwnerNext
  <2>3. CASE pc.owner = "join" /\ \E tm \in BOOLEAN : QueueClose(s, tm) /\ (tm => em[Tmr].live)
    <3>1. PICK tm \in BOOLEAN : QueueClose(s, tm) /\ (tm => em[Tmr].live)
      BY <2>3
    <3>2. e = Efd /\ AfterQueue(z, tm)
      BY <1>2, <1>5, <3>1
    <3>3. Detaching(z) \/ (TmrClose(z) /\ em'[Tmr].live)
      BY <1>9, <3>1, <3>2, Constants DEF AfterQueue
    <3>q. QED  BY <1>7, <2>3, <3>3, OwnerNext
  <2>q. QED  BY <1>4, <2>1, <2>2, <2>3
<1>q. QED  BY <1>2, <1>7, <1>8, <1>10, <1>11, <1>12, <1>13, OwnerStepDone

\* Every call of the owner.
LEMMA OwnerCall ==
    ASSUME IndInv, Call(Owner)
    PROVE  IndInv'
<1>1. ASSUME ResetCounterVal(Owner) \/ RenewEv(Owner) \/ FreeEv(Owner) \/ UnlockCounter(Owner) \/ SettimeStep(Owner)
      PROVE  FALSE
  <2>1. todo[Owner] # <<>> /\ Head(todo[Owner]).do \in {"take", "find", "free", "unlock", "time"}
    BY <1>1 DEF ResetCounterVal, RenewEv, FreeEv, UnlockCounter, SettimeStep, Doing
  <2>q. QED  BY <2>1, OwnerShape
<1>q. QED  BY <1>1, OwnerWrites, OwnerUnbinds, OwnerCloses DEF Call

-----------------------------------------------------------------------------
(* The loop.                                                               *)

\* What the loop does not touch.
LoopFrame == LiveInv' /\ TimerInv' /\ AppInv' /\ OwnerInv' /\ WorkerInv' /\ PostedInv' /\ ~thrown'

\* A step of the loop that deletes nothing and takes no ev_ keeps the rest.
LEMMA LoopLeaves ==
    ASSUME IndInv, UNCHANGED <<todo, app, thrown>>, pc.worker \notin {"handle", "gone"}, pc'.owner = pc.owner,
           interest' \subseteq interest,
           \A e \in Events : em'[e].live = em[e].live /\ em'[e].emee = em[e].emee /\ (em[e].ev # "none" => em'[e].ev # "none"),
           em'[Tmr].counter = em[Tmr].counter \/ app.registered
    PROVE  LoopFrame
<1>1. PhaseInv /\ LiveInv /\ TimerInv /\ AppInv /\ OwnerInv /\ PostedInv /\ ~thrown
  BY DEF IndInv
<1>2. todo[Worker] = <<>> /\ pc.owner # "done"
  BY <1>1 DEF PhaseInv
<1>3. LiveInv'
  BY <1>1, Constants DEF LiveInv
<1>4. TimerInv'
  <2>1. em'[Tmr].emee = em[Tmr].emee /\ (em[Tmr].ev # "none" => em'[Tmr].ev # "none")
    BY Constants
  <2>q. QED  BY <1>1, <2>1 DEF TimerInv
<1>5. AppInv'
  BY <1>1 DEF AppInv
<1>6. OwnerInv'
  BY <1>1, <1>2, Constants DEF OwnerInv
<1>7. WorkerInv'
  BY <1>2, NothingNext
<1>8. PostedInv'
  BY <1>1, Constants DEF PostedInv, TmrKept
<1>q. QED  BY <1>1, <1>3, <1>4, <1>5, <1>6, <1>7, <1>8 DEF LoopFrame

\* What is to be shown of a step of the loop.
LEMMA LoopDone ==
    ASSUME LoopFrame, TypeInv', PhaseInv', InterestInv', ConnInv'
    PROVE  IndInv'
  BY DEF IndInv, LoopFrame

\* The worker begins to poll.
LEMMA LocksPoller ==
    ASSUME IndInv, LockPoller
    PROVE  IndInv'
<1>1. TypeInv /\ PhaseInv /\ InterestInv /\ ConnInv
  BY DEF IndInv
<1>2. /\ pc.worker = "begin" /\ pc' = [pc EXCEPT !.worker = "wait"] /\ lock' = [lock EXCEPT !["poller"] = Worker]
      /\ UNCHANGED <<em, interest, ready, out, alive, todo, cb, batch, app, thrown>>
  BY DEF LockPoller
<1>3. /\ pc'.worker = "wait" /\ pc'.owner = pc.owner /\ lock'["poller"] = Worker
      /\ \A l \in Locks : l # "poller" => lock'[l] = lock[l]
  BY <1>1, <1>2, OtherLocks DEF TypeInv, TypeOK, Locks
<1>4. LoopFrame
  BY <1>2, <1>3, LoopLeaves
<1>5. TypeInv'
  BY <1>1, <1>2, Constants DEF TypeInv, TypeOK
<1>6. PhaseInv'
  BY <1>1, <1>2, <1>3 DEF PhaseInv
<1>7. InterestInv'
  BY <1>1, <1>2, <1>3 DEF InterestInv
<1>8. ConnInv'
  BY <1>1, <1>2, <1>3 DEF ConnInv, NotYetRead
<1>q. QED  BY <1>4, <1>5, <1>6, <1>7, <1>8, LoopDone

\* The timer's time passes: the event becomes active, in interest_ or not.
LEMMA Expires ==
    ASSUME IndInv, Expire
    PROVE  IndInv'
<1>1. TypeInv /\ PhaseInv /\ InterestInv /\ ConnInv
  BY DEF IndInv
<1>2. /\ pc.worker = "wait" /\ em' = [em EXCEPT ![Tmr].active = @ \cup {"TIMEOUT"}]
      /\ UNCHANGED <<interest, ready, out, alive, lock, todo, pc, cb, batch, app, thrown>>
  BY DEF Expire
<1>3. PICK r \in EventType : r = em[Tmr]
  BY <1>1, Constants DEF TypeInv, TypeOK
<1>4. [r EXCEPT !.active = @ \cup {"TIMEOUT"}] \in EventType
  BY DEF EventType, EvFlags
<1>5. /\ em' \in [Events -> EventType] /\ em'[Tmr] = [r EXCEPT !.active = @ \cup {"TIMEOUT"}]
      /\ \A e \in Events : e # Tmr => em'[e] = em[e]
  BY <1>1, <1>2, <1>3, <1>4, Constants DEF TypeInv, TypeOK
<1>6. /\ em'[Tmr].live = em[Tmr].live /\ em'[Tmr].emee = em[Tmr].emee /\ em'[Tmr].ev = em[Tmr].ev
      /\ em'[Tmr].counter = em[Tmr].counter
  BY <1>3, <1>5 DEF EventType
<1>7. \A e \in Events : em'[e].live = em[e].live /\ em'[e].emee = em[e].emee /\ em'[e].ev = em[e].ev
  BY <1>5, <1>6
<1>8. LoopFrame
  BY <1>2, <1>6, <1>7, LoopLeaves
<1>9. TypeInv'
  BY <1>1, <1>2, <1>5 DEF TypeInv, TypeOK
<1>10. PhaseInv'
  BY <1>1, <1>2 DEF PhaseInv
<1>11. InterestInv'
  <2>1. interest \subseteq Events /\ out \subseteq Events
    BY <1>1 DEF TypeInv, TypeOK
  <2>q. QED  BY <1>1, <1>2, <1>5, <1>7, <2>1, Constants DEF InterestInv
<1>12. ConnInv'
  <2>1. em'[Sock] = em[Sock]
    BY <1>5, Constants
  <2>q. QED  BY <1>1, <1>2, <2>1 DEF ConnInv, NotYetRead
<1>q. QED  BY <1>8, <1>9, <1>10, <1>11, <1>12, LoopDone

\* The kernel reports the socket.
LEMMA SocketIsReady ==
    ASSUME IndInv, SocketReady
    PROVE  IndInv'
<1>1. TypeInv /\ PhaseInv /\ InterestInv /\ ConnInv
  BY DEF IndInv
<1>2. PICK g \in SUBSET EvFlags : g = (app.wire \cap em[Sock].flags) \ em[Sock].told
  BY <1>1, Constants DEF TypeInv, TypeOK, EventType
<1>3. /\ pc.worker = "wait" /\ em' = [em EXCEPT ![Sock].active = @ \cup g, ![Sock].told = @ \cup g]
      /\ UNCHANGED <<interest, ready, out, alive, lock, todo, pc, cb, batch, app, thrown>>
  BY <1>2 DEF SocketReady
<1>4. PICK r \in EventType : r = em[Sock]
  BY <1>1, Constants DEF TypeInv, TypeOK
<1>5. [r EXCEPT !.active = @ \cup g, !.told = @ \cup g] \in EventType
  BY DEF EventType, EvFlags
<1>6. /\ em' \in [Events -> EventType] /\ em'[Sock] = [r EXCEPT !.active = @ \cup g, !.told = @ \cup g]
      /\ \A e \in Events : e # Sock => em'[e] = em[e]
  BY <1>1, <1>3, <1>4, <1>5, Constants DEF TypeInv, TypeOK, EventType
<1>7. /\ em'[Sock].live = em[Sock].live /\ em'[Sock].emee = em[Sock].emee /\ em'[Sock].ev = em[Sock].ev
      /\ em'[Sock].flags = em[Sock].flags /\ em'[Sock].readyFlags = em[Sock].readyFlags
      /\ em'[Sock].active = em[Sock].active \cup g
  BY <1>4, <1>6 DEF EventType
<1>8. \A e \in Events : em'[e].live = em[e].live /\ em'[e].emee = em[e].emee /\ em'[e].ev = em[e].ev
  BY <1>6, <1>7
<1>9. LoopFrame
  BY <1>3, <1>6, <1>8, LoopLeaves, Constants
<1>10. TypeInv'
  BY <1>1, <1>3, <1>6 DEF TypeInv, TypeOK
<1>11. PhaseInv'
  BY <1>1, <1>3 DEF PhaseInv
<1>12. InterestInv'
  <2>1. interest \subseteq Events /\ out \subseteq Events
    BY <1>1 DEF TypeInv, TypeOK
  <2>q. QED  BY <1>1, <1>3, <1>6, <1>8, <2>1, Constants DEF InterestInv
<1>13. ConnInv'
  <2>1. app.conn # "up" => "READ" \notin g
    BY <1>1, <1>2 DEF ConnInv
  <2>q. QED  BY <1>1, <1>3, <1>7, <2>1 DEF ConnInv, NotYetRead
<1>q. QED  BY <1>9, <1>10, <1>11, <1>12, <1>13, LoopDone

\* A callback starts, for an event that may have left interest_ meanwhile.
LEMMA Fires ==
    ASSUME IndInv, Fire
    PROVE  IndInv'
<1>1. TypeInv /\ PhaseInv /\ InterestInv /\ ConnInv
  BY DEF IndInv
<1>2. PICK e \in Active :
        /\ pc.worker \in {"wait", "loop"} /\ pc' = [pc EXCEPT !.worker = "lookup"]
        /\ cb' = [e |-> e, flags |-> em[e].active]
        /\ em' = [em EXCEPT ![e].active = {}, ![e].ev = IF "PERSIST" \in em[e].flags THEN @ ELSE "idle"]
        /\ UNCHANGED <<interest, ready, out, alive, lock, todo, batch, app, thrown>>
  BY DEF Fire
<1>3. e \in Events
  BY <1>2 DEF Active
<1>4. PICK r \in EventType : r = em[e]
  BY <1>1, <1>3 DEF TypeInv, TypeOK
<1>5. PICK q \in EventType : q = [r EXCEPT !.active = {}, !.ev = IF "PERSIST" \in r.flags THEN @ ELSE "idle"]
  BY DEF EventType
<1>6. /\ em' \in [Events -> EventType] /\ em'[e] = q
      /\ \A x \in Events : x # e => em'[x] = em[x]
  BY <1>1, <1>2, <1>3, <1>4, <1>5 DEF TypeInv, TypeOK, EventType
<1>7. /\ q.live = r.live /\ q.emee = r.emee /\ (r.ev # "none" => q.ev # "none") /\ q.flags = r.flags
      /\ q.counter = r.counter /\ q.active = {} /\ q.readyFlags = r.readyFlags
  BY <1>5 DEF EventType
<1>8. \A x \in Events : /\ em'[x].live = em[x].live /\ em'[x].emee = em[x].emee /\ (em[x].ev # "none" => em'[x].ev # "none")
                        /\ em'[x].flags = em[x].flags /\ em'[x].counter = em[x].counter
                        /\ em'[x].active \subseteq em[x].active /\ em'[x].readyFlags = em[x].readyFlags
  BY <1>4, <1>6, <1>7
<1>9. pc'.worker = "lookup" /\ pc'.owner = pc.owner
  BY <1>1, <1>2 DEF TypeInv, TypeOK
<1>10. LoopFrame
  BY <1>2, <1>8, <1>9, LoopLeaves, Constants
<1>11. TypeInv'
  <2>1. cb' \in [e : Events, flags : SUBSET EvFlags]
    BY <1>2, <1>3, <1>4 DEF EventType
  <2>q. QED  BY <1>1, <1>2, <1>6, <2>1 DEF TypeInv, TypeOK
<1>12. PhaseInv'
  BY <1>1, <1>2, <1>9 DEF PhaseInv
<1>13. InterestInv'
  <2>1. interest \subseteq Events /\ out \subseteq Events
    BY <1>1 DEF TypeInv, TypeOK
  <2>2. \A x \in interest : em[x].emee /\ em[x].ev # "none"
    BY <1>1 DEF InterestInv
  <2>3. \A x \in interest : em'[x].emee /\ em'[x].ev # "none"
    BY <1>8, <2>1, <2>2
  <2>4. \A x \in interest \cup out : em'[x].live
    BY <1>1, <1>8, <2>1 DEF InterestInv
  <2>5. "PERSIST" \in em'[Sfd].flags
    BY <1>1, <1>8, Constants DEF InterestInv
  <2>q. QED  BY <1>1, <1>2, <1>9, <2>3, <2>4, <2>5 DEF InterestInv
<1>14. ConnInv'
  <2>1. cb'.e = Sock => cb'.flags = em[Sock].active
    BY <1>2
  <2>2. /\ em'[Sock].flags = em[Sock].flags /\ em'[Sock].active \subseteq em[Sock].active
        /\ em'[Sock].readyFlags = em[Sock].readyFlags
    BY <1>8, Constants
  <2>q. QED  BY <1>1, <1>2, <1>9, <2>1, <2>2 DEF ConnInv, NotYetRead
<1>q. QED  BY <1>10, <1>11, <1>12, <1>13, <1>14, LoopDone

\* The steps of the loop that only change where the worker is.
LEMMA LoopMoves ==
    ASSUME IndInv, FindInInterest \/ LoopReturns
    PROVE  IndInv'
<1>1. TypeInv /\ PhaseInv /\ InterestInv /\ ConnInv
  BY DEF IndInv
<1>2. PICK w \in {"callback", "loop", "collect"} : pc' = [pc EXCEPT !.worker = w]
  BY DEF FindInInterest, LoopReturns
<1>3. /\ pc.worker \in {"lookup", "loop"}
      /\ UNCHANGED <<em, interest, ready, out, alive, lock, todo, cb, batch, app, thrown>>
  BY DEF FindInInterest, LoopReturns
<1>4. pc'.worker = w /\ pc'.owner = pc.owner
  BY <1>1, <1>2 DEF TypeInv, TypeOK
<1>5. LoopFrame
  BY <1>3, <1>4, LoopLeaves
<1>6. TypeInv'
  BY <1>1, <1>2, <1>3 DEF TypeInv, TypeOK
<1>7. PhaseInv'
  BY <1>1, <1>3, <1>4 DEF PhaseInv
<1>8. InterestInv'
  BY <1>1, <1>3, <1>4 DEF InterestInv
<1>9. ConnInv'
  BY <1>1, <1>3, <1>4 DEF ConnInv, NotYetRead
<1>q. QED  BY <1>5, <1>6, <1>7, <1>8, <1>9, LoopDone

\* handleEventCallback looks again: only an event still in interest_ is made ready,
\* or kept by interest_mutex_ until the timer's counter is written.
LEMMA HandlesCallback ==
    ASSUME IndInv, HandleEventCallback
    PROVE  IndInv'
<1>1. TypeInv /\ PhaseInv /\ InterestInv /\ ConnInv
  BY DEF IndInv
<1>2. /\ pc.worker = "callback" /\ lock["interest"] = Free
      /\ UNCHANGED <<interest, out, alive, todo, cb, batch, app, thrown>>
  BY DEF HandleEventCallback, Unlocked
<1>3. interest \subseteq Events /\ out \subseteq Events /\ cb.e \in Events /\ cb.flags \in SUBSET EvFlags
  BY <1>1 DEF TypeInv, TypeOK
<1>4. CASE ~StillInterested
  <2>1. pc' = [pc EXCEPT !.worker = "loop"] /\ UNCHANGED <<em, ready, lock>>
    BY <1>4 DEF HandleEventCallback
  <2>2. pc'.worker = "loop" /\ pc'.owner = pc.owner
    BY <1>1, <2>1 DEF TypeInv, TypeOK
  <2>3. LoopFrame
    BY <1>2, <2>1, <2>2, LoopLeaves
  <2>4. TypeInv'
    BY <1>1, <1>2, <2>1 DEF TypeInv, TypeOK
  <2>5. PhaseInv'
    BY <1>1, <1>2, <2>1, <2>2 DEF PhaseInv
  <2>6. InterestInv'
    BY <1>1, <1>2, <2>1, <2>2 DEF InterestInv
  <2>7. ConnInv'
    BY <1>1, <1>2, <2>1, <2>2 DEF ConnInv, NotYetRead
  <2>q. QED  BY <2>3, <2>4, <2>5, <2>6, <2>7, LoopDone
<1>5. CASE StillInterested /\ cb.e = Tmr /\ "TIMEOUT" \in cb.flags
  <2>1. pc' = [pc EXCEPT !.worker = "tick"] /\ lock' = [lock EXCEPT !["interest"] = Worker] /\ UNCHANGED <<em, ready>>
    BY <1>5 DEF HandleEventCallback
  <2>2. /\ pc'.worker = "tick" /\ pc'.owner = pc.owner /\ lock'["interest"] = Worker
        /\ lock'["poller"] = lock["poller"] /\ lock'["handling"] = lock["handling"]
    BY <1>1, <2>1 DEF TypeInv, TypeOK, Locks
  <2>3. LoopFrame
    BY <1>2, <2>1, <2>2, LoopLeaves
  <2>4. TypeInv'
    BY <1>1, <1>2, <2>1, Constants DEF TypeInv, TypeOK
  <2>5. PhaseInv'
    BY <1>1, <1>2, <2>1, <2>2 DEF PhaseInv
  <2>6. InterestInv'
    BY <1>1, <1>2, <1>5, <2>1, <2>2 DEF InterestInv, StillInterested
  <2>7. ConnInv'
    BY <1>1, <1>2, <2>1, <2>2 DEF ConnInv, NotYetRead
  <2>q. QED  BY <2>3, <2>4, <2>5, <2>6, <2>7, LoopDone
<1>6. CASE StillInterested /\ ~(cb.e = Tmr /\ "TIMEOUT" \in cb.flags)
  <2>1. /\ pc' = [pc EXCEPT !.worker = "loop"] /\ UNCHANGED lock
        /\ em' = [em EXCEPT ![cb.e].readyFlags = @ \cup cb.flags] /\ ready' = ready \cup {cb.e}
    BY <1>6 DEF HandleEventCallback, AddEventToReady
  <2>2. pc'.worker = "loop" /\ pc'.owner = pc.owner
    BY <1>1, <2>1 DEF TypeInv, TypeOK
  <2>3. PICK r \in EventType : r = em[cb.e]
    BY <1>1, <1>3 DEF TypeInv, TypeOK
  <2>4. PICK q \in EventType : q = [r EXCEPT !.readyFlags = @ \cup cb.flags]
    BY <1>3 DEF EventType
  <2>5. /\ em' \in [Events -> EventType] /\ em'[cb.e] = q
        /\ \A x \in Events : x # cb.e => em'[x] = em[x]
    BY <1>1, <1>3, <2>1, <2>3, <2>4 DEF TypeInv, TypeOK
  <2>6. /\ q.live = r.live /\ q.emee = r.emee /\ q.ev = r.ev /\ q.flags = r.flags
        /\ q.counter = r.counter /\ q.active = r.active /\ q.readyFlags = r.readyFlags \cup cb.flags
    BY <2>4 DEF EventType
  <2>7. \A x \in Events : /\ em'[x].live = em[x].live /\ em'[x].emee = em[x].emee /\ em'[x].ev = em[x].ev
                          /\ em'[x].flags = em[x].flags /\ em'[x].counter = em[x].counter
                          /\ em'[x].active = em[x].active
    BY <2>3, <2>5, <2>6
  <2>8. em'[Sock].readyFlags = em[Sock].readyFlags \cup (IF cb.e = Sock THEN cb.flags ELSE {})
    BY <2>3, <2>5, <2>6, Constants
  <2>9. LoopFrame
    BY <1>2, <2>2, <2>7, LoopLeaves, Constants
  <2>10. TypeInv'
    BY <1>1, <1>2, <1>3, <2>1, <2>5 DEF TypeInv, TypeOK
  <2>11. PhaseInv'
    BY <1>1, <1>2, <2>1, <2>2 DEF PhaseInv
  <2>12. InterestInv'
    <3>1. \A x \in interest : em'[x].emee /\ em'[x].ev # "none"
      BY <1>1, <1>3, <2>7 DEF InterestInv
    <3>2. \A x \in interest \cup out : em'[x].live
      BY <1>1, <1>3, <2>7 DEF InterestInv
    <3>3. "PERSIST" \in em'[Sfd].flags
      BY <1>1, <2>7, Constants DEF InterestInv
    <3>4. ready' \subseteq interest'
      BY <1>1, <1>2, <1>6, <2>1 DEF InterestInv, StillInterested
    <3>q. QED  BY <1>1, <1>2, <2>2, <3>1, <3>2, <3>3, <3>4 DEF InterestInv
  <2>13. ConnInv'
    <3>1. em'[Sock].flags = em[Sock].flags /\ em'[Sock].active = em[Sock].active
      BY <2>7, Constants
    <3>q. QED  BY <1>1, <1>2, <2>2, <2>8, <3>1 DEF ConnInv, NotYetRead
  <2>q. QED  BY <2>9, <2>10, <2>11, <2>12, <2>13, LoopDone
<1>q. QED  BY <1>4, <1>5, <1>6

\* The timer is still in interest_, hence not deleted, when its expiry is counted.
LEMMA TimerTicks ==
    ASSUME IndInv, TimerTick
    PROVE  IndInv'
<1>1. TypeInv /\ PhaseInv /\ InterestInv /\ ConnInv /\ TimerInv
  BY DEF IndInv
<1>2. PICK r \in EventType : r = WriteProt(em[Tmr])
  BY <1>1, EventTypes, Names, Constants DEF TypeInv, TypeOK
<1>3. /\ r.live = em[Tmr].live /\ r.ev = em[Tmr].ev /\ r.flags = em[Tmr].flags /\ r.emee = em[Tmr].emee
  BY <1>1, <1>2, WriteProtKeeps, Constants DEF TypeInv, TypeOK
<1>4. PICK q \in EventType : q = [r EXCEPT !.readyFlags = @ \cup {"TIMEOUT", "READ"}]
  BY DEF EventType, EvFlags
<1>5. q.live = em[Tmr].live /\ q.ev = em[Tmr].ev /\ q.flags = em[Tmr].flags /\ q.emee = em[Tmr].emee
  BY <1>3, <1>4 DEF EventType
<1>6. /\ pc.worker = "tick" /\ em' = [em EXCEPT ![Tmr] = q] /\ ready' = ready \cup {Tmr}
      /\ lock' = [lock EXCEPT !["interest"] = Free] /\ pc' = [pc EXCEPT !.worker = "loop"]
      /\ UNCHANGED <<interest, out, alive, todo, cb, batch, app, thrown>>
  BY <1>2, <1>4 DEF TimerTick
<1>7. /\ em' \in [Events -> EventType] /\ em'[Tmr] = q
      /\ \A x \in Events : x # Tmr => em'[x] = em[x]
  BY <1>1, <1>6, Constants DEF TypeInv, TypeOK
<1>8. \A x \in Events : /\ em'[x].live = em[x].live /\ em'[x].emee = em[x].emee /\ em'[x].ev = em[x].ev
                        /\ em'[x].flags = em[x].flags
  BY <1>5, <1>7
<1>9. /\ pc'.worker = "loop" /\ pc'.owner = pc.owner
      /\ lock'["poller"] = lock["poller"] /\ lock'["handling"] = lock["handling"]
  BY <1>1, <1>6 DEF TypeInv, TypeOK, Locks
<1>10. Tmr \in interest /\ app.registered
  BY <1>1, <1>6 DEF InterestInv, TimerInv
<1>11. LoopFrame
  BY <1>6, <1>8, <1>9, <1>10, LoopLeaves, Constants
<1>12. TypeInv'
  BY <1>1, <1>6, <1>7, Constants DEF TypeInv, TypeOK
<1>13. PhaseInv'
  BY <1>1, <1>6, <1>9 DEF PhaseInv
<1>14. InterestInv'
  <2>1. interest \subseteq Events /\ out \subseteq Events
    BY <1>1 DEF TypeInv, TypeOK
  <2>2. \A x \in interest : em'[x].emee /\ em'[x].ev # "none"
    BY <1>1, <1>8, <2>1 DEF InterestInv
  <2>3. \A x \in interest \cup out : em'[x].live
    BY <1>1, <1>8, <2>1 DEF InterestInv
  <2>4. "PERSIST" \in em'[Sfd].flags
    BY <1>1, <1>8, Constants DEF InterestInv
  <2>5. ready' \subseteq interest'
    BY <1>1, <1>6, <1>10 DEF InterestInv
  <2>q. QED  BY <1>1, <1>6, <1>9, <2>2, <2>3, <2>4, <2>5 DEF InterestInv
<1>15. ConnInv'
  <2>1. em'[Sock] = em[Sock]
    BY <1>7, Constants
  <2>q. QED  BY <1>1, <1>6, <1>9, <2>1 DEF ConnInv, NotYetRead
<1>q. QED  BY <1>11, <1>12, <1>13, <1>14, <1>15, LoopDone

\* What poll takes out of ready_ lives, and interest_mutex_ stays locked.
LEMMA GetsReadyEvents ==
    ASSUME IndInv, GetReadyEmEvents
    PROVE  IndInv'
<1>1. TypeInv /\ PhaseInv /\ InterestInv /\ ConnInv /\ TimerInv
  BY DEF IndInv
<1>2. /\ pc.worker = "collect" /\ lock' = [lock EXCEPT !["interest"] = Worker] /\ out' = ready /\ ready' = {}
      /\ interest' = {e \in interest : e \notin ready \/ "PERSIST" \in em[e].flags}
      /\ pc' = [pc EXCEPT !.worker = "deliver"]
      /\ UNCHANGED <<em, alive, todo, cb, batch, app, thrown>>
  BY DEF GetReadyEmEvents
<1>3. /\ pc'.worker = "deliver" /\ pc'.owner = pc.owner /\ lock'["interest"] = Worker
      /\ lock'["poller"] = lock["poller"] /\ lock'["handling"] = lock["handling"]
  BY <1>1, <1>2 DEF TypeInv, TypeOK, Locks
<1>4. LoopFrame
  BY <1>2, <1>3, LoopLeaves
<1>5. TypeInv'
  BY <1>1, <1>2, Constants DEF TypeInv, TypeOK
<1>6. PhaseInv'
  BY <1>1, <1>2, <1>3 DEF PhaseInv
<1>7. InterestInv'
  <2>1. interest' \subseteq interest /\ out' \subseteq interest
    BY <1>1, <1>2 DEF InterestInv
  <2>2. alive => Sfd \in interest'
    BY <1>1, <1>2 DEF InterestInv
  <2>q. QED  BY <1>1, <1>2, <1>3, <2>1, <2>2 DEF InterestInv
<1>8. ConnInv'
  <2>1. app.conn # "up" => Tmr \notin out'
    BY <1>1, <1>2 DEF ConnInv, InterestInv, TimerInv
  <2>q. QED  BY <1>1, <1>2, <1>3, <2>1 DEF ConnInv, NotYetRead
<1>q. QED  BY <1>4, <1>5, <1>6, <1>7, <1>8, LoopDone

\* poll reads the flags while no event can be closed, and forgets which they were.
LEMMA PollReturnsEvents ==
    ASSUME IndInv, PollReturns
    PROVE  IndInv'
<1>1. TypeInv /\ PhaseInv /\ InterestInv /\ ConnInv
  BY DEF IndInv
<1>2. /\ pc.worker = "deliver" /\ batch' = {[e |-> e, flags |-> em[e].readyFlags] : e \in out}
      /\ em' = [e \in Events |-> IF e \in out THEN [em[e] EXCEPT !.readyFlags = {}] ELSE em[e]]
      /\ out' = {} /\ lock' = [lock EXCEPT !["interest"] = Free] /\ pc' = [pc EXCEPT !.worker = "look"]
      /\ UNCHANGED <<interest, ready, alive, todo, cb, app, thrown>>
  BY DEF PollReturns
<1>3. /\ pc'.worker = "look" /\ pc'.owner = pc.owner
      /\ lock'["poller"] = lock["poller"] /\ lock'["handling"] = lock["handling"]
  BY <1>1, <1>2 DEF TypeInv, TypeOK, Locks
<1>4. \A x \in Events : /\ em'[x] \in EventType
                        /\ em'[x].live = em[x].live /\ em'[x].emee = em[x].emee /\ em'[x].ev = em[x].ev
                        /\ em'[x].flags = em[x].flags /\ em'[x].counter = em[x].counter
                        /\ em'[x].active = em[x].active /\ em'[x].readyFlags \subseteq em[x].readyFlags
  <2> TAKE x \in Events
  <2>1. PICK r \in EventType : r = em[x]
    BY <1>1 DEF TypeInv, TypeOK
  <2>2. em'[x] = IF x \in out THEN [r EXCEPT !.readyFlags = {}] ELSE r
    BY <1>2, <2>1
  <2>q. QED  BY <2>1, <2>2 DEF EventType
<1>5. LoopFrame
  BY <1>2, <1>3, <1>4, LoopLeaves, Constants
<1>6. batch' \subseteq [e : Events, flags : SUBSET EvFlags]
  BY <1>1, <1>2 DEF TypeInv, TypeOK, EventType
<1>61. em' \in [Events -> EventType]
  BY <1>2, <1>4
<1>7. TypeInv'
  BY <1>1, <1>2, <1>6, <1>61, Constants DEF TypeInv, TypeOK
<1>8. PhaseInv'
  BY <1>1, <1>2, <1>3 DEF PhaseInv
<1>9. InterestInv'
  <2>1. interest \subseteq Events
    BY <1>1 DEF TypeInv, TypeOK
  <2>2. \A x \in interest : em'[x].emee /\ em'[x].ev # "none" /\ em'[x].live
    BY <1>1, <1>4, <2>1 DEF InterestInv
  <2>4. "PERSIST" \in em'[Sfd].flags
    BY <1>1, <1>4, Constants DEF InterestInv
  <2>q. QED  BY <1>1, <1>2, <1>3, <2>2, <2>4 DEF InterestInv
<1>10. ConnInv'
  <2>1. app.conn # "up" => NotYetRead(batch')
    BY <1>1, <1>2 DEF ConnInv, NotYetRead
  <2>2. /\ em'[Sock].flags = em[Sock].flags /\ em'[Sock].active = em[Sock].active
        /\ em'[Sock].readyFlags \subseteq em[Sock].readyFlags
    BY <1>4, Constants
  <2>q. QED  BY <1>1, <1>2, <1>3, <2>1, <2>2 DEF ConnInv
<1>q. QED  BY <1>5, <1>7, <1>8, <1>9, <1>10, LoopDone

\* onReady handles nothing after the client stopped, and is alone while it handles.
LEMMA GetsReady ==
    ASSUME IndInv, OnReady
    PROVE  IndInv'
<1>1. TypeInv /\ PhaseInv /\ InterestInv /\ ConnInv
  BY DEF IndInv
<1>2. pc.worker = "look" /\ UNCHANGED <<em, interest, ready, out, alive, todo, cb, app, thrown>>
  BY DEF OnReady
<1>3. CASE app.quit
  <2>1. pc' = [pc EXCEPT !.worker = "gone"] /\ batch' = {} /\ lock' = [lock EXCEPT !["poller"] = Free]
    BY <1>3 DEF OnReady
  <2>2. /\ pc'.worker = "gone" /\ pc'.owner = pc.owner
        /\ lock'["interest"] = lock["interest"] /\ lock'["handling"] = lock["handling"]
    BY <1>1, <2>1 DEF TypeInv, TypeOK, Locks
  <2>3. LoopFrame
    BY <1>2, <2>2, LoopLeaves
  <2>4. TypeInv'
    BY <1>1, <1>2, <2>1, Constants DEF TypeInv, TypeOK
  <2>5. PhaseInv'
    BY <1>1, <1>2, <2>2 DEF PhaseInv
  <2>6. InterestInv'
    BY <1>1, <1>2, <2>2 DEF InterestInv
  <2>7. ConnInv'
    BY <1>1, <1>2, <2>1, <2>2 DEF ConnInv, NotYetRead
  <2>q. QED  BY <2>3, <2>4, <2>5, <2>6, <2>7, LoopDone
<1>4. CASE ~app.quit
  <2>1. /\ pc' = [pc EXCEPT !.worker = "handle"] /\ lock' = [lock EXCEPT !["handling"] = Worker]
        /\ batch' \subseteq batch
    BY <1>4 DEF OnReady
  <2>2. /\ pc'.worker = "handle" /\ pc'.owner = pc.owner /\ lock'["handling"] = Worker
        /\ lock'["interest"] = lock["interest"] /\ lock'["poller"] = lock["poller"]
    BY <1>1, <2>1 DEF TypeInv, TypeOK, Locks
  <2>21. pc.owner = "run" /\ ~app.stop
    BY <1>1, <1>4 DEF PhaseInv
  <2>3. LoopFrame
    BY <1>2, <2>2, LoopLeaves
  <2>4. TypeInv'
    BY <1>1, <1>2, <2>1, Constants DEF TypeInv, TypeOK
  <2>5. PhaseInv'
    BY <1>1, <1>2, <2>2, <2>21 DEF PhaseInv
  <2>6. InterestInv'
    BY <1>1, <1>2, <2>2 DEF InterestInv
  <2>7. ConnInv'
    BY <1>1, <1>2, <2>1, <2>2, <2>21 DEF ConnInv, NotYetRead
  <2>q. QED  BY <2>3, <2>4, <2>5, <2>6, <2>7, LoopDone
<1>q. QED  BY <1>3, <1>4

-----------------------------------------------------------------------------
(* The client around it.                                                   *)

\* What the worker has to do changes, and what the threads share.
LEMMA HandleDone ==
    ASSUME IndInv, pc.worker = "handle", todo[Worker] = <<>>,
           UNCHANGED <<em, interest, ready, out, alive, lock, pc, cb, thrown>>, batch' \subseteq batch,
           NEW s \in Seq(StepType), todo' = [todo EXCEPT ![Worker] = s],
           app' \in AppType, app'.quit = app.quit, app'.stop = app.stop,
           TimerInv', ConnInv', WorkerInv', PostedInv'
    PROVE  IndInv'
<1>1. TypeInv /\ PhaseInv /\ InterestInv /\ LiveInv /\ AppInv /\ OwnerInv /\ ~thrown
  BY DEF IndInv
<1>2. /\ todo' \in [Threads -> Seq(StepType)] /\ todo'[Worker] = s
      /\ todo'[App] = todo[App] /\ todo'[Owner] = todo[Owner]
  BY <1>1, Constants DEF TypeInv
<1>3. TypeInv'
  BY <1>1, <1>2 DEF TypeInv, TypeOK
<1>4. PhaseInv'
  BY <1>1, <1>2 DEF PhaseInv
<1>5. InterestInv' /\ LiveInv'
  BY <1>1 DEF InterestInv, LiveInv
<1>6. AppInv'
  BY <1>1, <1>2 DEF AppInv
<1>7. OwnerInv'
  BY <1>1, <1>2 DEF OwnerInv
<1>q. QED  BY <1>1, <1>3, <1>4, <1>5, <1>6, <1>7 DEF IndInv

\* The queue is read, and what it asks for registered.
LEMMA HandlesQueue ==
    ASSUME IndInv, pc.worker = "handle", todo[Worker] = <<>>,
           UNCHANGED <<em, interest, ready, out, alive, lock, pc, cb, thrown>>, batch' \subseteq batch, HandleQueue
    PROVE  IndInv'
<1>1. TypeInv /\ TimerInv /\ ConnInv /\ PostedInv /\ app \in AppType
  BY DEF IndInv, TypeInv, TypeOK
<1>2. PICK sk \in BOOLEAN, tm \in BOOLEAN : sk = (app.conn = "new") /\ tm = (app.posted /\ ~app.registered)
  OBVIOUS
<1> DEFINE s == (ReadEfd(Efd) \o (IF sk THEN Ctl("Add", Sock, {"WRITE"}) ELSE <<>>))
                     \o (IF tm THEN Ctl("Add", Tmr, {"READ", "PERSIST"}) ELSE <<>>)
<1>3. todo' = [todo EXCEPT ![Worker] = s]
  BY <1>2 DEF HandleQueue
<1>4. s \in Seq(StepType) /\ EfdTake(s, sk, tm)
  BY <1>1, QueueSteps
<1> HIDE DEF s
<1>5. app' = [app EXCEPT !.posted = FALSE, !.registered = @ \/ app.posted, !.conn = IF @ = "new" THEN "opening" ELSE @]
  BY DEF HandleQueue
<1>6. /\ app' \in AppType /\ app'.posted = FALSE /\ (app'.registered <=> app.registered \/ app.posted)
      /\ app'.conn = (IF sk THEN "opening" ELSE app.conn)
      /\ app'.wire = app.wire /\ app'.timer = app.timer /\ app'.entry = app.entry
      /\ app'.quit = app.quit /\ app'.stop = app.stop
  BY <1>1, <1>2, <1>5 DEF AppType
<1>7. /\ todo'[Worker] = s /\ todo'[App] = todo[App] /\ todo'[Owner] = todo[Owner]
  BY <1>1, <1>3, Constants DEF TypeInv
<1>8. TimerInv'
  <2>1. ~app'.registered => ~app.registered /\ ~app'.entry /\ ~app'.posted
    BY <1>1, <1>6 DEF TimerInv
  <2>q. QED  BY <1>1, <1>6, <1>7, <2>1 DEF TimerInv
<1>9. ConnInv'
  BY <1>1, <1>2, <1>6 DEF ConnInv, NotYetRead
<1>10. PostedInv'
  BY <1>6 DEF PostedInv
<1>11. WorkerInv'
  <2>1. sk => Sock \notin interest' /\ app'.conn # "new"
    BY <1>1, <1>2, <1>6 DEF ConnInv
  <2>2. tm => TmrAhead'
    <3>1. app.posted => TmrKept
      BY <1>1 DEF PostedInv
    <3>2. TmrKept' <=> TmrKept
      BY <1>7 DEF TmrKept
    <3>3. tm => app'.entry /\ app'.registered /\ Tmr \notin interest
      BY <1>1, <1>2, <1>6 DEF TimerInv
    <3>q. QED  BY <1>2, <3>1, <3>2, <3>3 DEF TmrAhead
  <2>3. QueueFacts(sk, tm)'
    BY <2>1, <2>2 DEF QueueFacts
  <2>q. QED  BY <1>4, <1>7, <2>3, QueueNext
<1>q. QED  BY <1>3, <1>4, <1>6, <1>8, <1>9, <1>10, <1>11, HandleDone

\* The connection is up.
LEMMA HandlesWritable ==
    ASSUME IndInv, pc.worker = "handle", todo[Worker] = <<>>,
           UNCHANGED <<em, interest, ready, out, alive, lock, pc, cb, thrown>>, batch' \subseteq batch, HandleWritable
    PROVE  IndInv'
<1>1. TypeInv /\ TimerInv /\ ConnInv /\ PostedInv /\ app \in AppType
  BY DEF IndInv, TypeInv, TypeOK
<1> DEFINE s == Ctl("Mod", Sock, {"READ", "PERSIST"})
<1>2. s \in Seq(StepType) /\ SockMod4(s)
  BY <1>1, WritableSteps
<1>3. todo' = [todo EXCEPT ![Worker] = s] /\ app' = [app EXCEPT !.conn = "up"]
  BY DEF HandleWritable
<1> HIDE DEF s
<1>4. /\ app' \in AppType /\ app'.posted = app.posted /\ app'.registered = app.registered
      /\ app'.conn = "up" /\ app'.wire = app.wire /\ app'.timer = app.timer /\ app'.entry = app.entry
      /\ app'.quit = app.quit /\ app'.stop = app.stop
  BY <1>1, <1>3 DEF AppType
<1>5. /\ todo'[Worker] = s /\ todo'[App] = todo[App] /\ todo'[Owner] = todo[Owner]
  BY <1>1, <1>3, Constants DEF TypeInv
<1>6. TimerInv'
  BY <1>1, <1>4, <1>5 DEF TimerInv
<1>7. ConnInv'
  BY <1>1, <1>4 DEF ConnInv, NotYetRead
<1>8. PostedInv'
  BY <1>1, <1>4, <1>5 DEF PostedInv, TmrKept
<1>9. WorkerInv'
  BY <1>2, <1>4, <1>5, ModNext
<1>q. QED  BY <1>2, <1>3, <1>4, <1>6, <1>7, <1>8, <1>9, HandleDone

\* The timer of the request is registered, and its pool is not being deleted.
LEMMA Settles ==
    ASSUME IndInv, pc.worker = "handle", todo[Worker] = <<>>,
           UNCHANGED <<em, interest, ready, out, alive, lock, pc, cb, thrown>>, batch' \subseteq batch,
           NEW answered \in BOOLEAN, Settle(answered), app.registered, ~NotYetRead(batch)
    PROVE  IndInv'
<1>1. TypeInv /\ TimerInv /\ ConnInv /\ PostedInv /\ app \in AppType
  BY DEF IndInv, TypeInv, TypeOK
<1>2. pc.owner \notin {"drop", "detach"}
  BY <1>1 DEF ConnInv
<1> DEFINE l == Settime(Tmr, "off") \o <<Step("release", Tmr, "", {})>>
<1>3. l \in Seq(StepType) /\ TmrTake(l)
  BY SettleSteps
<1>4. PICK s \in Seq(StepType) : s = (IF app.entry /\ em[Tmr].live THEN l ELSE <<>>)
  BY <1>3, EmptySeq
<1>5. todo' = [todo EXCEPT ![Worker] = s]
  BY <1>4 DEF Settle
<1> HIDE DEF l
<1>6. app' = [app EXCEPT !.wire = IF answered THEN @ \ {"READ"} ELSE @]
  BY DEF Settle
<1>7. /\ app' \in AppType /\ app'.posted = app.posted /\ app'.registered = app.registered
      /\ app'.conn = app.conn /\ app'.timer = app.timer /\ app'.entry = app.entry
      /\ app'.quit = app.quit /\ app'.stop = app.stop
  BY <1>1, <1>6 DEF AppType
<1>8. /\ todo'[Worker] = s /\ todo'[App] = todo[App] /\ todo'[Owner] = todo[Owner]
  BY <1>1, <1>5, Constants DEF TypeInv
<1>9. TimerInv'
  BY <1>1, <1>7, <1>8 DEF TimerInv
<1>10. ConnInv'
  BY <1>1, <1>7 DEF ConnInv, NotYetRead
<1>11. PostedInv'
  BY <1>1, <1>7, <1>8 DEF PostedInv, TmrKept
<1>12. WorkerInv'
  <2>1. CASE app.entry /\ em[Tmr].live
    <3>1. TmrFacts'
      BY <1>2, <1>7, <2>1 DEF TmrFacts, TmrKept
    <3>2. TmrTake(todo'[Worker])
      BY <1>3, <1>4, <1>8, <2>1
    <3>q. QED  BY <3>1, <3>2, SettleNext
  <2>2. CASE ~(app.entry /\ em[Tmr].live)
    BY <1>4, <1>8, <2>2, NothingNext
  <2>q. QED  BY <2>1, <2>2
<1>q. QED  BY <1>5, <1>7, <1>9, <1>10, <1>11, <1>12, HandleDone

\* Each event of the batch is for a handler of its own, or for none.
LEMMA Handles ==
    ASSUME IndInv, Handle
    PROVE  IndInv'
<1>1. TypeInv /\ TimerInv /\ ConnInv /\ PostedInv
  BY DEF IndInv
<1>2. PICK b \in batch :
        /\ pc.worker = "handle" /\ todo[Worker] = <<>>
        /\ batch' = batch \ {b}
        /\ CASE b.e = Efd -> HandleQueue
             [] b.e = Sock /\ "WRITE" \in b.flags -> HandleWritable
             [] b.e = Tmr /\ "READ" \in b.flags /\ app.registered -> Settle(FALSE)
             [] b.e = Sock /\ "READ" \in b.flags /\ "READ" \in app.wire -> Settle(TRUE)
             [] OTHER -> UNCHANGED <<todo, app>>
        /\ UNCHANGED <<em, interest, ready, out, alive, lock, pc, cb, thrown>>
  BY DEF Handle
<1>3. batch' \subseteq batch
  BY <1>2
<1>4. \/ HandleQueue
      \/ HandleWritable
      \/ Settle(FALSE) /\ b.e = Tmr /\ app.registered
      \/ Settle(TRUE) /\ b.e = Sock /\ "READ" \in b.flags /\ "READ" \in app.wire
      \/ UNCHANGED <<todo, app>>
  BY <1>2
<1>5. CASE HandleQueue
  BY <1>2, <1>3, <1>5, HandlesQueue
<1>6. CASE HandleWritable
  BY <1>2, <1>3, <1>6, HandlesWritable
<1>7. CASE Settle(FALSE) /\ b.e = Tmr /\ app.registered
  <2>1. ~NotYetRead(batch)
    BY <1>7 DEF NotYetRead
  <2>q. QED  BY <1>2, <1>3, <1>7, <2>1, Settles
<1>8. CASE Settle(TRUE) /\ b.e = Sock /\ "READ" \in b.flags /\ "READ" \in app.wire
  <2>1. ~NotYetRead(batch)
    BY <1>8 DEF NotYetRead
  <2>2. app.registered
    BY <1>1, <1>8 DEF TimerInv
  <2>q. QED  BY <1>2, <1>3, <1>8, <2>1, <2>2, Settles
<1>9. CASE UNCHANGED <<todo, app>>
  <2>1. todo' = [todo EXCEPT ![Worker] = <<>>] /\ <<>> \in Seq(StepType)
    BY <1>1, <1>2, <1>9, Constants, EmptySeq DEF TypeInv
  <2>2. app' \in AppType
    BY <1>1, <1>9 DEF TypeInv, TypeOK
  <2>3. TimerInv'
    BY <1>1, <1>2, <1>9 DEF TimerInv
  <2>4. ConnInv'
    BY <1>1, <1>2, <1>3, <1>9 DEF ConnInv, NotYetRead
  <2>5. PostedInv'
    BY <1>1, <1>2, <1>9 DEF PostedInv, TmrKept
  <2>6. WorkerInv'
    BY <1>2, <1>9, NothingNext
  <2>q. QED  BY <1>2, <1>3, <1>9, <2>1, <2>2, <2>3, <2>4, <2>5, <2>6, HandleDone
<1>q. QED  BY <1>4, <1>5, <1>6, <1>7, <1>8, <1>9

\* The worker gives back the poller and handlingMutex.
LEMMA HandlingEnds ==
    ASSUME IndInv, Handled
    PROVE  IndInv'
<1>1. TypeInv /\ PhaseInv /\ InterestInv /\ ConnInv /\ LiveInv /\ TimerInv /\ AppInv /\ OwnerInv /\ PostedInv /\ ~thrown
  BY DEF IndInv
<1>2. /\ pc.worker = "handle" /\ todo[Worker] = <<>>
      /\ lock' = [lock EXCEPT !["handling"] = Free, !["poller"] = Free] /\ pc' = [pc EXCEPT !.worker = "begin"]
      /\ UNCHANGED <<em, interest, ready, out, alive, todo, cb, batch, app, thrown>>
  BY DEF Handled
<1>3. /\ pc'.worker = "begin" /\ pc'.owner = pc.owner /\ lock'["interest"] = lock["interest"]
  BY <1>1, <1>2 DEF TypeInv, TypeOK, Locks
<1>4. TypeInv'
  BY <1>1, <1>2, Constants DEF TypeInv, TypeOK
<1>5. PhaseInv'
  BY <1>1, <1>2, <1>3 DEF PhaseInv
<1>6. InterestInv' /\ LiveInv'
  BY <1>1, <1>2, <1>3 DEF InterestInv, LiveInv
<1>7. ConnInv'
  BY <1>1, <1>2, <1>3 DEF ConnInv, NotYetRead
<1>8. TimerInv' /\ AppInv'
  BY <1>1, <1>2 DEF TimerInv, AppInv
<1>9. OwnerInv'
  BY <1>1, <1>2, <1>3 DEF OwnerInv
<1>10. PostedInv'
  BY <1>1, <1>2, <1>3 DEF PostedInv, TmrKept
<1>11. WorkerInv'
  BY <1>2, NothingNext
<1>q. QED  BY <1>1, <1>2, <1>4, <1>5, <1>6, <1>7, <1>8, <1>9, <1>10, <1>11 DEF IndInv

\* The timer is released once it is disarmed and out of interest_.
LEMMA Releases ==
    ASSUME IndInv, ReleaseTimer
    PROVE  IndInv'
<1>1. TypeInv /\ PhaseInv /\ InterestInv /\ ConnInv /\ LiveInv /\ TimerInv /\ AppInv /\ OwnerInv /\ PostedInv /\ WorkerInv /\ ~thrown
  BY DEF IndInv
<1>2. /\ todo[Worker] # <<>> /\ Head(todo[Worker]).do = "release" /\ Then(Worker, <<>>)
      /\ app' = [app EXCEPT !.timer = "idle", !.entry = FALSE]
      /\ UNCHANGED <<em, interest, ready, out, alive, lock, pc, cb, batch, thrown>>
  BY DEF ReleaseTimer, Doing
<1>3. Release(todo[Worker]) /\ TmrFacts /\ Tmr \notin interest
  BY <1>1, <1>2, WorkerShape
<1>4. /\ todo' \in [Threads -> Seq(StepType)] /\ DOMAIN todo' = Threads
      /\ todo'[Worker] = <<>> /\ todo'[App] = todo[App] /\ todo'[Owner] = todo[Owner]
  BY <1>1, <1>2, <1>3, ThenNone, Constants DEF Release
<1>5. /\ app' \in AppType /\ app'.posted = app.posted /\ app'.registered = app.registered
      /\ app'.conn = app.conn /\ app'.wire = app.wire /\ app'.timer = "idle" /\ app'.entry = FALSE
      /\ app'.quit = app.quit /\ app'.stop = app.stop
  BY <1>1, <1>2 DEF TypeInv, TypeOK, AppType
<1>6. TypeInv'
  BY <1>1, <1>2, <1>4, <1>5 DEF TypeInv, TypeOK
<1>7. PhaseInv'
  BY <1>1, <1>2, <1>4, <1>5 DEF PhaseInv
<1>8. InterestInv' /\ LiveInv'
  BY <1>1, <1>2, <1>5 DEF InterestInv, LiveInv
<1>9. TimerInv'
  <2>1. app.registered /\ AppDone(todo[App])
    BY <1>1, <1>3 DEF TimerInv, TmrFacts
  <2>2. ~Arming(todo'[App]) /\ ~ArmingOut(todo'[App]) /\ ~On2(todo'[App]) /\ ~On3(todo'[App])
    BY <1>4, <2>1, AppApart
  <2>q. QED  BY <1>2, <1>3, <1>5, <2>1, <2>2 DEF TimerInv
<1>10. ConnInv'
  BY <1>1, <1>2, <1>5 DEF ConnInv, NotYetRead
<1>11. AppInv'
  BY <1>1, <1>4 DEF AppInv
<1>12. OwnerInv'
  BY <1>1, <1>2, <1>4, <1>5 DEF OwnerInv
<1>13. PostedInv'
  BY <1>1, <1>2, <1>4, <1>5 DEF PostedInv, TmrKept
<1>14. WorkerInv'
  BY <1>4, NothingNext
<1>q. QED  BY <1>1, <1>2, <1>6, <1>7, <1>8, <1>9, <1>10, <1>11, <1>12, <1>13, <1>14 DEF IndInv

\* What the worker knows does not depend on what else the other threads change.
LEMMA WorkerSame ==
    ASSUME WorkerInv, todo'[Worker] = todo[Worker], interest' = interest, app'.conn = app.conn,
           \A e \in Events : em'[e].ev = em[e].ev /\ em'[e].emee = em[e].emee,
           app.entry /\ app.registered /\ TmrKept => app'.entry /\ app'.registered /\ TmrKept'
    PROVE  WorkerInv'
<1> DEFINE s == todo[Worker]
<1>0. /\ em'[Efd].ev = em[Efd].ev /\ em'[Efd].emee = em[Efd].emee
      /\ em'[Sock].ev = em[Sock].ev /\ em'[Sock].emee = em[Sock].emee
      /\ em'[Tmr].ev = em[Tmr].ev /\ em'[Tmr].emee = em[Tmr].emee
  BY Constants
<1>1. ASSUME NEW sk \in BOOLEAN, NEW tm \in BOOLEAN, OfQueue(s, sk, tm), tm => TmrAhead
      PROVE  WorkerInv'
  <2>1. tm => TmrAhead'
    BY <1>1 DEF TmrAhead
  <2>2. OfQueue(todo[Worker], sk, tm)'
    BY <1>0, <1>1 DEF OfQueue
  <2>q. QED  BY <2>1, <2>2 DEF WorkerInv
<1>2. ASSUME NEW tm \in BOOLEAN, OfSock(s, tm), tm => TmrAhead
      PROVE  WorkerInv'
  <2>1. tm => TmrAhead'
    BY <1>2 DEF TmrAhead
  <2>2. OfSock(todo[Worker], tm)'
    BY <1>0, <1>2 DEF OfSock
  <2>q. QED  BY <2>1, <2>2 DEF WorkerInv
<1>3. ASSUME OfTmr(s)
      PROVE  WorkerInv'
  <2>1. OfTmr(todo[Worker])'
    BY <1>0, <1>3 DEF OfTmr
  <2>q. QED  BY <2>1 DEF WorkerInv
<1>4. ASSUME OfMod(s)
      PROVE  WorkerInv'
  <2>1. OfMod(todo[Worker])'
    BY <1>0, <1>4 DEF OfMod
  <2>q. QED  BY <2>1 DEF WorkerInv
<1>5. ASSUME OfSettle(s)
      PROVE  WorkerInv'
  <2>1. OfSettle(todo[Worker])'
    BY <1>0, <1>5 DEF OfSettle
  <2>q. QED  BY <2>1 DEF WorkerInv
<1>q. QED  BY <1>1, <1>2, <1>3, <1>4, <1>5 DEF WorkerInv

\* The peer accepts.
LEMMA PeerDoesAccept ==
    ASSUME IndInv, PeerAccepts
    PROVE  IndInv'
<1>1. TypeInv /\ PhaseInv /\ InterestInv /\ ConnInv /\ LiveInv /\ TimerInv /\ AppInv /\ OwnerInv /\ PostedInv /\ WorkerInv /\ ~thrown
  BY DEF IndInv
<1>2. /\ app' = [app EXCEPT !.wire = @ \cup {"WRITE"}]
      /\ UNCHANGED <<em, interest, ready, out, alive, lock, todo, pc, cb, batch, thrown>>
  BY DEF PeerAccepts
<1>3. /\ app' \in AppType /\ app'.posted = app.posted /\ app'.registered = app.registered
      /\ app'.conn = app.conn /\ app'.wire = app.wire \cup {"WRITE"} /\ app'.timer = app.timer /\ app'.entry = app.entry
      /\ app'.quit = app.quit /\ app'.stop = app.stop
  BY <1>1, <1>2 DEF TypeInv, TypeOK, AppType
<1>4. TypeInv'
  BY <1>1, <1>2, <1>3 DEF TypeInv, TypeOK
<1>5. PhaseInv' /\ InterestInv' /\ LiveInv' /\ AppInv'
  BY <1>1, <1>2, <1>3 DEF PhaseInv, InterestInv, LiveInv, AppInv
<1>6. TimerInv'
  BY <1>1, <1>2, <1>3 DEF TimerInv
<1>7. ConnInv'
  BY <1>1, <1>2, <1>3 DEF ConnInv, NotYetRead
<1>8. OwnerInv'
  BY <1>1, <1>2, <1>3 DEF OwnerInv
<1>9. PostedInv' /\ (TmrKept' <=> TmrKept)
  BY <1>1, <1>2, <1>3 DEF PostedInv, TmrKept
<1>10. WorkerInv'
  BY <1>1, <1>2, <1>3, <1>9, WorkerSame
<1>q. QED  BY <1>1, <1>2, <1>4, <1>5, <1>6, <1>7, <1>8, <1>9, <1>10 DEF IndInv

\* The peer answers a request whose timer was registered.
LEMMA PeerDoesAnswer ==
    ASSUME IndInv, PeerAnswers
    PROVE  IndInv'
<1>1. TypeInv /\ PhaseInv /\ InterestInv /\ ConnInv /\ LiveInv /\ TimerInv /\ AppInv /\ OwnerInv /\ PostedInv /\ WorkerInv /\ ~thrown
  BY DEF IndInv
<1>2. /\ app.conn = "up" /\ app.entry /\ ~app.posted /\ app' = [app EXCEPT !.wire = @ \cup {"READ"}]
      /\ em' = [em EXCEPT ![Sock].told = @ \ {"READ"}]
      /\ UNCHANGED <<interest, ready, out, alive, lock, todo, pc, cb, batch, thrown>>
  BY DEF PeerAnswers
<1>3. /\ app' \in AppType /\ app'.posted = app.posted /\ app'.registered = app.registered
      /\ app'.conn = app.conn /\ app'.timer = app.timer /\ app'.entry = app.entry
      /\ app'.quit = app.quit /\ app'.stop = app.stop
  BY <1>1, <1>2 DEF TypeInv, TypeOK, AppType
<1>4. PICK r \in EventType : r = em[Sock]
  BY <1>1, Constants DEF TypeInv, TypeOK
<1>5. PICK q \in EventType : q = [r EXCEPT !.told = @ \ {"READ"}]
  BY DEF EventType
<1>6. /\ em' \in [Events -> EventType] /\ em'[Sock] = q
      /\ \A e \in Events : e # Sock => em'[e] = em[e]
  BY <1>1, <1>2, <1>4, <1>5, Constants DEF TypeInv, TypeOK
<1>7. q.live = r.live /\ q.emee = r.emee /\ q.ev = r.ev /\ q.flags = r.flags /\ q.active = r.active /\ q.counter = r.counter
  BY <1>5 DEF EventType
<1>8. \A e \in Events : /\ em'[e].live = em[e].live /\ em'[e].emee = em[e].emee /\ em'[e].ev = em[e].ev
                        /\ em'[e].flags = em[e].flags /\ em'[e].counter = em[e].counter
  BY <1>4, <1>6, <1>7
<1>9. TypeInv'
  BY <1>1, <1>2, <1>3, <1>6 DEF TypeInv, TypeOK
<1>10. PhaseInv' /\ AppInv'
  BY <1>1, <1>2, <1>3 DEF PhaseInv, AppInv
<1>11. InterestInv'
  <2>1. interest \subseteq Events /\ out \subseteq Events
    BY <1>1 DEF TypeInv, TypeOK
  <2>2. \A x \in interest : em'[x].emee /\ em'[x].ev # "none"
    BY <1>1, <1>8, <2>1 DEF InterestInv
  <2>3. \A x \in interest \cup out : em'[x].live
    BY <1>1, <1>8, <2>1 DEF InterestInv
  <2>4. "PERSIST" \in em'[Sfd].flags
    BY <1>1, <1>8, Constants DEF InterestInv
  <2>q. QED  BY <1>1, <1>2, <2>2, <2>3, <2>4 DEF InterestInv
<1>12. LiveInv'
  BY <1>1, <1>2, <1>3, <1>8, Constants DEF LiveInv
<1>13. TimerInv'
  <2>1. app.registered
    BY <1>1, <1>2 DEF TimerInv
  <2>2. em'[Tmr] = em[Tmr]
    BY <1>6, Constants
  <2>q. QED  BY <1>1, <1>2, <1>3, <2>1, <2>2 DEF TimerInv
<1>14. ConnInv'
  BY <1>1, <1>2, <1>3 DEF ConnInv, NotYetRead
<1>15. OwnerInv'
  BY <1>1, <1>2, <1>3, <1>8, Constants DEF OwnerInv
<1>16. PostedInv' /\ (TmrKept' <=> TmrKept)
  BY <1>1, <1>2, <1>3, <1>8, Constants DEF PostedInv, TmrKept
<1>17. WorkerInv'
  BY <1>1, <1>2, <1>3, <1>8, <1>16, WorkerSame
<1>q. QED  BY <1>1, <1>2, <1>9, <1>10, <1>11, <1>12, <1>13, <1>14, <1>15, <1>16, <1>17 DEF IndInv

\* The application takes an idle timer, which is not in interest_.
LEMMA Performs ==
    ASSUME IndInv, Perform
    PROVE  IndInv'
<1>1. TypeInv /\ PhaseInv /\ InterestInv /\ ConnInv /\ LiveInv /\ TimerInv /\ OwnerInv /\ PostedInv /\ WorkerInv /\ ~thrown
  BY DEF IndInv
<1> DEFINE s == (Settime(Tmr, "on") \o <<Step("post", Efd, "", {})>>) \o WriteEfd(Efd)
<1>2. /\ todo[App] = <<>> /\ app.conn = "up" /\ app.timer = "idle" /\ app.left > 0 /\ pc.owner \in {"run", "close", "drop"}
      /\ app' = [app EXCEPT !.timer = "used", !.left = @ - 1]
      /\ todo' = [todo EXCEPT ![App] = s]
      /\ UNCHANGED <<em, interest, ready, out, alive, lock, pc, cb, batch, thrown>>
  BY DEF Perform
<1>3. s \in Seq(StepType) /\ AppTake(s)
  BY PerformSteps
<1> HIDE DEF s
<1>4. /\ todo' \in [Threads -> Seq(StepType)] /\ DOMAIN todo' = Threads
      /\ todo'[App] = s /\ todo'[Worker] = todo[Worker] /\ todo'[Owner] = todo[Owner]
  BY <1>1, <1>2, <1>3, Constants DEF TypeInv
<1>5. /\ app' \in AppType /\ app'.posted = app.posted /\ app'.registered = app.registered
      /\ app'.conn = app.conn /\ app'.wire = app.wire /\ app'.timer = "used" /\ app'.entry = app.entry
      /\ app'.quit = app.quit /\ app'.stop = app.stop
  <2>1. app \in AppType
    BY <1>1 DEF TypeInv, TypeOK
  <2>2. app.left \in 0..MaxRequests /\ MaxRequests \in Nat
    BY <2>1, BoundsAssumption DEF AppType
  <2>3. PICK n \in 0..MaxRequests : n = app.left - 1
    BY <1>2, <2>2
  <2>4. app' = [app EXCEPT !.timer = "used", !.left = n]
    BY <1>2, <2>1, <2>3 DEF AppType
  <2>q. QED  BY <2>1, <2>4 DEF AppType
<1>6. TypeInv'
  BY <1>1, <1>2, <1>4, <1>5 DEF TypeInv, TypeOK
<1>7. PhaseInv' /\ InterestInv' /\ LiveInv'
  BY <1>1, <1>2, <1>4, <1>5 DEF PhaseInv, InterestInv, LiveInv
<1>8. AppInv'
  BY <1>3, <1>4 DEF AppInv, Arming, ArmingOut
<1>9. TimerInv'
  <2>1. ~app.entry /\ Tmr \notin interest
    BY <1>1, <1>2 DEF TimerInv
  <2>2. ~On2(todo'[App]) /\ ~On3(todo'[App])
    BY <1>3, <1>4, AppApart
  <2>q. QED  BY <1>1, <1>2, <1>5, <2>1, <2>2 DEF TimerInv
<1>10. ConnInv'
  BY <1>1, <1>2, <1>5 DEF ConnInv, NotYetRead
<1>11. OwnerInv'
  BY <1>1, <1>2, <1>4, <1>5 DEF OwnerInv
<1>12. PostedInv' /\ (TmrKept' <=> TmrKept)
  BY <1>1, <1>2, <1>4, <1>5 DEF PostedInv, TmrKept
<1>13. WorkerInv'
  BY <1>1, <1>2, <1>4, <1>5, <1>12, WorkerSame
<1>q. QED  BY <1>1, <1>2, <1>6, <1>7, <1>8, <1>9, <1>10, <1>11, <1>12, <1>13 DEF IndInv

\* The request is queued with its timer armed.
LEMMA Posts ==
    ASSUME IndInv, Post
    PROVE  IndInv'
<1>1. TypeInv /\ PhaseInv /\ InterestInv /\ ConnInv /\ LiveInv /\ TimerInv /\ OwnerInv /\ PostedInv /\ WorkerInv /\ ~thrown
  BY DEF IndInv
<1>2. /\ todo[App] # <<>> /\ Head(todo[App]).do = "post" /\ Then(App, <<>>)
      /\ app' = [app EXCEPT !.entry = TRUE, !.posted = TRUE]
      /\ UNCHANGED <<em, interest, ready, out, alive, lock, pc, cb, batch, thrown>>
  BY DEF Post, Doing
<1>3. AppPost(todo[App]) /\ app.timer = "used" /\ ~app.entry
  BY <1>2, AppShape
<1>4. /\ todo' \in [Threads -> Seq(StepType)] /\ DOMAIN todo' = Threads
      /\ AppWrite(todo'[App]) /\ todo'[Worker] = todo[Worker] /\ todo'[Owner] = todo[Owner]
  BY <1>1, <1>2, <1>3, ThenNone, Constants DEF AppPost
<1>5. /\ app' \in AppType /\ app'.posted = TRUE /\ app'.registered = app.registered
      /\ app'.conn = app.conn /\ app'.wire = app.wire /\ app'.timer = app.timer /\ app'.entry = TRUE
      /\ app'.quit = app.quit /\ app'.stop = app.stop
  BY <1>1, <1>2 DEF TypeInv, TypeOK, AppType
<1>6. pc.owner \notin {"detach", "join", "done"} /\ app.conn = "up"
  BY <1>1, <1>2, <1>3 DEF PhaseInv, ConnInv
<1>7. TypeInv'
  BY <1>1, <1>2, <1>4, <1>5 DEF TypeInv, TypeOK
<1>8. PhaseInv' /\ InterestInv' /\ LiveInv'
  BY <1>1, <1>2, <1>4, <1>5, <1>6 DEF PhaseInv, InterestInv, LiveInv
<1>9. AppDone(todo'[App]) /\ AppInv'
  BY <1>4 DEF AppDone, AppInv
<1>10. TimerInv'
  <2>1. ~Arming(todo'[App]) /\ ~ArmingOut(todo'[App]) /\ ~On2(todo'[App]) /\ ~On3(todo'[App])
    BY <1>9, AppApart
  <2>q. QED  BY <1>1, <1>2, <1>3, <1>5, <1>9, <2>1 DEF TimerInv
<1>11. ConnInv'
  BY <1>1, <1>2, <1>5, <1>6 DEF ConnInv, NotYetRead
<1>12. OwnerInv'
  BY <1>1, <1>2, <1>4, <1>5 DEF OwnerInv
<1>13. PostedInv'
  BY <1>2, <1>6 DEF PostedInv, TmrKept
<1>14. WorkerInv'
  BY <1>1, <1>2, <1>3, <1>4, <1>5, WorkerSame
<1>q. QED  BY <1>1, <1>2, <1>7, <1>8, <1>9, <1>10, <1>11, <1>12, <1>13, <1>14 DEF IndInv


-----------------------------------------------------------------------------
(* The owner between its calls.                                            *)

\* The client is told to stop.
LEMMA ShutsDown ==
    ASSUME IndInv, Shutdown
    PROVE  IndInv'
<1>1. TypeInv /\ PhaseInv /\ InterestInv /\ ConnInv /\ LiveInv /\ TimerInv /\ AppInv /\ OwnerInv /\ PostedInv /\ WorkerInv /\ ~thrown
  BY DEF IndInv
<1> DEFINE s == <<Step("write", Sfd, "", {})>>
<1>2. /\ pc.owner = "run" /\ pc' = [pc EXCEPT !.owner = "close"]
      /\ app' = [app EXCEPT !.quit = TRUE] /\ todo' = [todo EXCEPT ![Owner] = s]
      /\ UNCHANGED <<em, interest, ready, out, alive, lock, cb, batch, thrown>>
  BY DEF Shutdown, WriteEfd
<1>3. s \in Seq(StepType) /\ ShutWrite(s)
  BY SingleStep, Names, Constants DEF ShutWrite
<1> HIDE DEF s
<1>4. /\ todo' \in [Threads -> Seq(StepType)] /\ DOMAIN todo' = Threads
      /\ todo'[Owner] = s /\ todo'[Worker] = todo[Worker] /\ todo'[App] = todo[App]
  BY <1>1, <1>2, <1>3, Constants DEF TypeInv
<1>5. /\ app' \in AppType /\ app'.posted = app.posted /\ app'.registered = app.registered
      /\ app'.conn = app.conn /\ app'.wire = app.wire /\ app'.timer = app.timer /\ app'.entry = app.entry
      /\ app'.quit = TRUE /\ app'.stop = app.stop
  BY <1>1, <1>2 DEF TypeInv, TypeOK, AppType
<1>6. pc'.owner = "close" /\ pc'.worker = pc.worker
  BY <1>1, <1>2 DEF TypeInv, TypeOK
<1>7. TypeInv'
  BY <1>1, <1>2, <1>4, <1>5 DEF TypeInv, TypeOK
<1>8. PhaseInv'
  BY <1>1, <1>2, <1>4, <1>5, <1>6 DEF PhaseInv
<1>9. InterestInv' /\ LiveInv'
  BY <1>1, <1>2, <1>5, <1>6 DEF InterestInv, LiveInv
<1>10. TimerInv' /\ AppInv'
  BY <1>1, <1>2, <1>4, <1>5 DEF TimerInv, AppInv
<1>11. ConnInv'
  BY <1>1, <1>2, <1>5, <1>6 DEF ConnInv, NotYetRead
<1>12. OwnerInv'
  BY <1>3, <1>4, <1>6, OwnerNext
<1>13. TmrKept' /\ PostedInv'
  BY <1>6 DEF PostedInv, TmrKept
<1>14. WorkerInv'
  BY <1>1, <1>2, <1>4, <1>5, <1>13, WorkerSame
<1>q. QED  BY <1>1, <1>2, <1>7, <1>8, <1>9, <1>10, <1>11, <1>12, <1>13, <1>14 DEF IndInv

\* The socket is closed only while nothing is handled, and nothing is afterwards.
LEMMA ClosesConnection ==
    ASSUME IndInv, CloseConnection
    PROVE  IndInv'
<1>1. TypeInv /\ PhaseInv /\ InterestInv /\ ConnInv /\ LiveInv /\ TimerInv /\ AppInv /\ OwnerInv /\ PostedInv /\ WorkerInv /\ ~thrown
  BY DEF IndInv
<1>2. /\ pc.owner = "close" /\ todo[Owner] = <<>> /\ pc' = [pc EXCEPT !.owner = "drop"]
      /\ UNCHANGED <<em, interest, ready, out, alive, cb, batch, thrown>>
  BY DEF CloseConnection
<1>3. pc' \in [worker : {"begin", "wait", "loop", "lookup", "callback", "tick", "collect", "deliver", "look", "handle", "gone"},
               owner : {"run", "close", "drop", "detach", "join", "done"}]
      /\ pc'.owner = "drop" /\ pc'.worker = pc.worker
  BY <1>1, <1>2 DEF TypeInv, TypeOK
<1>4. InterestInv'
  BY <1>1, <1>2, <1>3 DEF InterestInv
<1>5. TmrKept' /\ PostedInv'
  BY <1>3 DEF PostedInv, TmrKept
<1>6. CASE app.conn = "up"
  <2> DEFINE s == CloseEvent(Sock) \o <<Step("handled", Sock, "", {})>>
  <2>1. /\ lock["handling"] = Free /\ lock' = [lock EXCEPT !["handling"] = Owner]
        /\ app' = [app EXCEPT !.stop = TRUE] /\ todo' = [todo EXCEPT ![Owner] = s]
    BY <1>6 DEF CloseConnection, Unlocked
  <2>2. s \in Seq(StepType) /\ SockClose(s)
    BY CloseSteps
  <2> HIDE DEF s
  <2>3. /\ todo' \in [Threads -> Seq(StepType)] /\ DOMAIN todo' = Threads
        /\ todo'[Owner] = s /\ todo'[Worker] = todo[Worker] /\ todo'[App] = todo[App]
    BY <1>1, <2>1, <2>2, Constants DEF TypeInv
  <2>4. /\ app' \in AppType /\ app'.posted = app.posted /\ app'.registered = app.registered
        /\ app'.conn = app.conn /\ app'.wire = app.wire /\ app'.timer = app.timer /\ app'.entry = app.entry
        /\ app'.quit = app.quit /\ app'.stop = TRUE
    BY <1>1, <2>1 DEF TypeInv, TypeOK, AppType
  <2>5. /\ lock' \in [Locks -> Threads \cup {Free}]
        /\ lock'["poller"] = lock["poller"] /\ lock'["interest"] = lock["interest"]
    BY <1>1, <2>1, Constants DEF TypeInv, TypeOK, Locks
  <2>6. pc.worker # "handle" /\ todo[Worker] = <<>>
    <3>1. Free # Worker
      BY DEF Free, Worker
    <3>q. QED  BY <1>1, <2>1, <3>1 DEF PhaseInv
  <2>7. em[Sock].live
    BY <1>1, <1>2 DEF LiveInv, PhaseInv
  <2>8. TypeInv'
    BY <1>1, <1>2, <1>3, <2>3, <2>4, <2>5 DEF TypeInv, TypeOK
  <2>9. PhaseInv'
    BY <1>1, <1>2, <1>3, <2>3, <2>4, <2>5, <2>6 DEF PhaseInv
  <2>10. LiveInv'
    BY <1>1, <1>2, <1>3, <2>4 DEF LiveInv
  <2>11. TimerInv' /\ AppInv'
    BY <1>1, <1>2, <2>3, <2>4 DEF TimerInv, AppInv
  <2>12. ConnInv'
    BY <1>1, <1>2, <1>3, <1>6, <2>4, <2>6 DEF ConnInv, NotYetRead
  <2>13. OwnerInv'
    BY <1>2, <1>3, <2>2, <2>3, <2>4, <2>7, OwnerNext
  <2>14. WorkerInv'
    BY <2>3, <2>6, NothingNext
  <2>q. QED  BY <1>1, <1>2, <1>4, <1>5, <2>8, <2>9, <2>10, <2>11, <2>12, <2>13, <2>14 DEF IndInv
<1>7. CASE app.conn # "up"
  <2>1. UNCHANGED <<lock, app, todo>>
    BY <1>7 DEF CloseConnection
  <2>2. TypeInv'
    BY <1>1, <1>2, <1>3, <2>1 DEF TypeInv, TypeOK
  <2>3. PhaseInv'
    BY <1>1, <1>2, <1>3, <2>1 DEF PhaseInv
  <2>4. LiveInv' /\ TimerInv' /\ AppInv'
    BY <1>1, <1>2, <1>3, <2>1 DEF LiveInv, TimerInv, AppInv
  <2>5. ConnInv'
    BY <1>1, <1>2, <1>3, <1>7, <2>1 DEF ConnInv, NotYetRead
  <2>6. OwnerInv'
    BY <1>2, <2>1, OwnerNext
  <2>7. WorkerInv'
    BY <1>1, <1>2, <1>5, <2>1, WorkerSame
  <2>q. QED  BY <1>1, <1>2, <1>4, <1>5, <2>2, <2>3, <2>4, <2>5, <2>6, <2>7 DEF IndInv
<1>q. QED  BY <1>6, <1>7

\* handlingMutex is given back.
LEMMA ConnectionIsClosed ==
    ASSUME IndInv, Closed
    PROVE  IndInv'
<1>1. TypeInv /\ PhaseInv /\ InterestInv /\ ConnInv /\ LiveInv /\ TimerInv /\ AppInv /\ OwnerInv /\ PostedInv /\ WorkerInv /\ ~thrown
  BY DEF IndInv
<1>2. /\ todo[Owner] # <<>> /\ Head(todo[Owner]).do = "handled" /\ Then(Owner, <<>>)
      /\ lock' = [lock EXCEPT !["handling"] = Free]
      /\ UNCHANGED <<em, interest, ready, out, alive, pc, cb, batch, app, thrown>>
  BY DEF Closed, Doing
<1>3. SockHandled(todo[Owner]) /\ pc.owner = "drop"
  BY <1>2, OwnerShape
<1>4. /\ todo' \in [Threads -> Seq(StepType)] /\ DOMAIN todo' = Threads
      /\ todo'[Owner] = <<>> /\ todo'[Worker] = todo[Worker] /\ todo'[App] = todo[App]
  BY <1>1, <1>2, <1>3, ThenNone, Constants DEF SockHandled
<1>5. app.stop /\ pc.worker # "handle" /\ todo[Worker] = <<>>
  BY <1>1, <1>2, <1>3 DEF OwnerInv, PhaseInv
<1>6. /\ lock' \in [Locks -> Threads \cup {Free}]
      /\ lock'["poller"] = lock["poller"] /\ lock'["interest"] = lock["interest"]
  BY <1>1, <1>2, Constants DEF TypeInv, TypeOK, Locks
<1>7. TypeInv'
  BY <1>1, <1>2, <1>4, <1>6 DEF TypeInv, TypeOK
<1>8. PhaseInv'
  BY <1>1, <1>2, <1>4, <1>5, <1>6 DEF PhaseInv
<1>9. InterestInv' /\ LiveInv' /\ TimerInv' /\ AppInv'
  BY <1>1, <1>2, <1>4 DEF InterestInv, LiveInv, TimerInv, AppInv
<1>10. ConnInv'
  BY <1>1, <1>2 DEF ConnInv, NotYetRead
<1>11. OwnerInv'
  BY <1>4, OwnerNext
<1>12. PostedInv'
  BY <1>2, <1>3 DEF PostedInv, TmrKept
<1>13. WorkerInv'
  BY <1>4, <1>5, NothingNext
<1>q. QED  BY <1>1, <1>2, <1>7, <1>8, <1>9, <1>10, <1>11, <1>12, <1>13 DEF IndInv

\* The timer is closed with its pool when no call and no queued request holds it.
LEMMA DropsPool ==
    ASSUME IndInv, DropPool
    PROVE  IndInv'
<1>1. TypeInv /\ PhaseInv /\ InterestInv /\ ConnInv /\ LiveInv /\ TimerInv /\ AppInv /\ OwnerInv /\ PostedInv /\ WorkerInv /\ ~thrown
  BY DEF IndInv
<1> DEFINE s == IF app.posted THEN <<>> ELSE <<Step("close", Tmr, "", {})>>
<1>2. /\ pc.owner = "drop" /\ pc' = [pc EXCEPT !.owner = "detach"]
      /\ todo' = [todo EXCEPT ![Owner] = s]
      /\ UNCHANGED <<em, interest, ready, out, alive, lock, cb, batch, app, thrown>>
  BY DEF DropPool, CloseEvent
<1>3. todo[Worker] = <<>> /\ todo[App] = <<>> /\ todo[Owner] = <<>>
  BY Constants DEF DropPool
<1>4. s \in Seq(StepType) /\ (IF app.posted THEN s = <<>> ELSE PoolClose(s))
  <2>1. <<Step("close", Tmr, "", {})>> \in Seq(StepType) /\ PoolClose(<<Step("close", Tmr, "", {})>>)
    BY SingleStep, Names, Constants DEF PoolClose
  <2>2. <<>> \in Seq(StepType)
    BY EmptySeq
  <2>q. QED  BY <2>1, <2>2
<1> HIDE DEF s
<1>5. /\ todo' \in [Threads -> Seq(StepType)] /\ DOMAIN todo' = Threads
      /\ todo'[Owner] = s /\ todo'[Worker] = <<>> /\ todo'[App] = <<>>
  BY <1>1, <1>2, <1>3, <1>4, Constants DEF TypeInv
<1>6. pc'.owner = "detach" /\ pc'.worker = pc.worker
  BY <1>1, <1>2 DEF TypeInv, TypeOK
<1>7. em[Tmr].live
  BY <1>1, <1>2 DEF LiveInv
<1>8. TypeInv'
  BY <1>1, <1>2, <1>5 DEF TypeInv, TypeOK
<1>9. PhaseInv'
  BY <1>1, <1>2, <1>5, <1>6 DEF PhaseInv
<1>10. InterestInv' /\ LiveInv'
  BY <1>1, <1>2, <1>6 DEF InterestInv, LiveInv
<1>11. TimerInv' /\ AppInv'
  BY <1>1, <1>2, <1>3, <1>5 DEF TimerInv, AppInv
<1>12. ConnInv'
  BY <1>1, <1>2, <1>6 DEF ConnInv, NotYetRead
<1>13. OwnerInv'
  BY <1>2, <1>4, <1>5, <1>6, <1>7, OwnerNext
<1>14. PostedInv'
  BY <1>2, <1>4, <1>5, <1>7 DEF PostedInv, TmrKept
<1>15. WorkerInv'
  BY <1>5, NothingNext
<1>q. QED  BY <1>1, <1>2, <1>8, <1>9, <1>10, <1>11, <1>12, <1>13, <1>14, <1>15 DEF IndInv

\* The queue is unbound and closed between two polls, with the timer if it lives.
LEMMA DetachesHandlers ==
    ASSUME IndInv, DetachHandlers
    PROVE  IndInv'
<1>1. TypeInv /\ PhaseInv /\ InterestInv /\ ConnInv /\ LiveInv /\ TimerInv /\ AppInv /\ OwnerInv /\ PostedInv /\ WorkerInv /\ ~thrown
  BY DEF IndInv
<1>2. PICK tm \in BOOLEAN : tm = em[Tmr].live
  BY <1>1, Constants DEF TypeInv, TypeOK, EventType
<1> DEFINE s == ((Ctl("Del", Efd, {}) \o CloseEvent(Efd)) \o (IF tm THEN CloseEvent(Tmr) ELSE <<>>))
                  \o <<Step("detached", Efd, "", {})>>
<1>3. /\ pc.owner = "detach" /\ todo[Owner] = <<>> /\ lock["poller"] = Free
      /\ lock' = [lock EXCEPT !["poller"] = Owner] /\ pc' = [pc EXCEPT !.owner = "join"]
      /\ todo' = [todo EXCEPT ![Owner] = s]
      /\ UNCHANGED <<em, interest, ready, out, alive, cb, batch, app, thrown>>
  BY <1>2 DEF DetachHandlers, Unlocked
<1>4. s \in Seq(StepType) /\ Unbind4(s, tm)
  BY <1>1, DetachSteps
<1> HIDE DEF s
<1>5. /\ todo' \in [Threads -> Seq(StepType)] /\ DOMAIN todo' = Threads
      /\ todo'[Owner] = s /\ todo'[Worker] = todo[Worker] /\ todo'[App] = todo[App]
  BY <1>1, <1>3, <1>4, Constants DEF TypeInv
<1>6. pc'.owner = "join" /\ pc'.worker = pc.worker
  BY <1>1, <1>3 DEF TypeInv, TypeOK
<1>7. pc.worker \in {"begin", "gone"} /\ todo[Worker] = <<>>
  <2>1. Free # Worker
    BY DEF Free, Worker
  <2>q. QED  BY <1>1, <1>3, <2>1 DEF PhaseInv
<1>8. em[Efd].live
  BY <1>1, <1>3 DEF LiveInv
<1>9. /\ lock' \in [Locks -> Threads \cup {Free}]
      /\ lock'["handling"] = lock["handling"] /\ lock'["interest"] = lock["interest"]
  BY <1>1, <1>3, Constants DEF TypeInv, TypeOK, Locks
<1>10. TypeInv'
  BY <1>1, <1>3, <1>5, <1>9 DEF TypeInv, TypeOK
<1>11. PhaseInv'
  BY <1>1, <1>3, <1>5, <1>6, <1>7, <1>9 DEF PhaseInv
<1>12. InterestInv' /\ LiveInv'
  BY <1>1, <1>3, <1>6 DEF InterestInv, LiveInv
<1>13. TimerInv' /\ AppInv'
  BY <1>1, <1>3, <1>5 DEF TimerInv, AppInv
<1>14. ConnInv'
  BY <1>1, <1>3, <1>6, <1>7 DEF ConnInv, NotYetRead
<1>15. OwnerInv'
  <2>1. Unbinding(todo'[Owner], tm) /\ em'[Efd].live /\ (tm => em'[Tmr].live)
    BY <1>2, <1>3, <1>4, <1>5, <1>8 DEF Unbinding
  <2>q. QED  BY <1>6, <2>1, OwnerNext
<1>16. PostedInv'
  BY <1>6 DEF PostedInv, TmrKept
<1>17. WorkerInv'
  BY <1>5, <1>7, NothingNext
<1>q. QED  BY <1>1, <1>3, <1>10, <1>11, <1>12, <1>13, <1>14, <1>15, <1>16, <1>17 DEF IndInv

\* The poller is given back.
LEMMA HandlersAreDetached ==
    ASSUME IndInv, Detached
    PROVE  IndInv'
<1>1. TypeInv /\ PhaseInv /\ InterestInv /\ ConnInv /\ LiveInv /\ TimerInv /\ AppInv /\ OwnerInv /\ PostedInv /\ WorkerInv /\ ~thrown
  BY DEF IndInv
<1>2. /\ todo[Owner] # <<>> /\ Head(todo[Owner]).do = "detached" /\ Then(Owner, <<>>)
      /\ lock' = [lock EXCEPT !["poller"] = Free]
      /\ UNCHANGED <<em, interest, ready, out, alive, pc, cb, batch, app, thrown>>
  BY DEF Detached, Doing
<1>3. Detaching(todo[Owner]) /\ pc.owner = "join"
  BY <1>2, OwnerShape
<1>4. /\ todo' \in [Threads -> Seq(StepType)] /\ DOMAIN todo' = Threads
      /\ todo'[Owner] = <<>> /\ todo'[Worker] = todo[Worker] /\ todo'[App] = todo[App]
  BY <1>1, <1>2, <1>3, ThenNone, Constants DEF Detaching
<1>5. pc.worker # "handle" /\ todo[Worker] = <<>>
  BY <1>1, <1>3 DEF PhaseInv
<1>6. /\ lock' \in [Locks -> Threads \cup {Free}]
      /\ lock'["handling"] = lock["handling"] /\ lock'["interest"] = lock["interest"]
  BY <1>1, <1>2, Constants DEF TypeInv, TypeOK, Locks
<1>7. TypeInv'
  BY <1>1, <1>2, <1>4, <1>6 DEF TypeInv, TypeOK
<1>8. PhaseInv'
  BY <1>1, <1>2, <1>3, <1>4, <1>5, <1>6 DEF PhaseInv
<1>9. InterestInv' /\ LiveInv' /\ TimerInv' /\ AppInv'
  BY <1>1, <1>2, <1>4 DEF InterestInv, LiveInv, TimerInv, AppInv
<1>10. ConnInv'
  BY <1>1, <1>2 DEF ConnInv, NotYetRead
<1>11. OwnerInv'
  BY <1>4, OwnerNext
<1>12. PostedInv'
  BY <1>2, <1>3 DEF PostedInv, TmrKept
<1>13. WorkerInv'
  BY <1>4, <1>5, NothingNext
<1>q. QED  BY <1>1, <1>2, <1>7, <1>8, <1>9, <1>10, <1>11, <1>12, <1>13 DEF IndInv

\* The poller takes the ev_ of every event that is in its sets, the reactor's
\* descriptor among them, before it goes.
LEMMA DestroysPoller ==
    ASSUME IndInv, DestroyPoller
    PROVE  IndInv'
<1>1. TypeInv /\ PhaseInv /\ InterestInv /\ ConnInv /\ LiveInv /\ TimerInv /\ AppInv /\ OwnerInv /\ PostedInv /\ WorkerInv /\ ~thrown
  BY DEF IndInv
<1> DEFINE s == <<Step("close", Sfd, "", {})>>
<1>2. /\ pc.owner = "join" /\ todo[Owner] = <<>> /\ pc.worker = "gone"
      /\ pc' = [pc EXCEPT !.owner = "done"] /\ alive' = FALSE
      /\ em' = [e \in Events |-> IF e \in interest \cup ready THEN Forgotten(em[e]) ELSE em[e]]
      /\ interest' = {} /\ ready' = {} /\ todo' = [todo EXCEPT ![Owner] = s]
      /\ UNCHANGED <<out, lock, cb, batch, app, thrown>>
  BY DEF DestroyPoller, CloseEvent
<1>3. s \in Seq(StepType) /\ SfdClose(s)
  BY SingleStep, Names, Constants DEF SfdClose
<1> HIDE DEF s
<1>4. todo[Worker] = <<>> /\ todo[App] = <<>> /\ out = {} /\ alive /\ Sfd \in interest /\ em[Sfd].live
  BY <1>1, <1>2 DEF PhaseInv, InterestInv, LiveInv
<1>5. /\ todo' \in [Threads -> Seq(StepType)] /\ DOMAIN todo' = Threads
      /\ todo'[Owner] = s /\ todo'[Worker] = <<>> /\ todo'[App] = <<>>
  BY <1>1, <1>2, <1>3, <1>4, Constants DEF TypeInv
<1>6. pc'.owner = "done" /\ pc'.worker = "gone"
  BY <1>1, <1>2 DEF TypeInv, TypeOK
<1>7. ASSUME NEW r \in EventType
      PROVE  /\ Forgotten(r) \in EventType /\ Forgotten(r).ev = "none" /\ Forgotten(r).emee = FALSE /\ Forgotten(r).active = {}
             /\ Forgotten(r).live = r.live /\ Forgotten(r).flags = r.flags /\ Forgotten(r).readyFlags = r.readyFlags
             /\ Forgotten(r).counter = r.counter
  BY DEF Forgotten, EventType
<1>8. /\ em' \in [Events -> EventType] /\ em'[Sfd].ev = "none"
      /\ \A e \in Events : /\ em'[e].live = em[e].live /\ em'[e].flags = em[e].flags /\ em'[e].readyFlags = em[e].readyFlags
                           /\ em'[e].counter = em[e].counter /\ em'[e].active \subseteq em[e].active
                           /\ ~em[e].emee => ~em'[e].emee
  <2>1. em \in [Events -> EventType]
    BY <1>1 DEF TypeInv, TypeOK
  <2>2. ASSUME NEW e \in Events
        PROVE  /\ em'[e] \in EventType /\ em'[e].live = em[e].live /\ em'[e].flags = em[e].flags
               /\ em'[e].readyFlags = em[e].readyFlags
               /\ em'[e].counter = em[e].counter /\ em'[e].active \subseteq em[e].active
               /\ ~em[e].emee => ~em'[e].emee
               /\ e \in interest => em'[e].ev = "none"
    <3>1. em[e] \in EventType
      BY <2>1
    <3>2. CASE e \in interest \cup ready
      <4>1. em'[e] = Forgotten(em[e])
        BY <1>2, <3>2
      <4>q. QED  BY <1>7, <3>1, <4>1
    <3>3. CASE e \notin interest \cup ready
      <4>1. em'[e] = em[e]
        BY <1>2, <3>3
      <4>q. QED  BY <3>1, <3>3, <4>1
    <3>q. QED  BY <3>2, <3>3
  <2>3. em' \in [Events -> EventType]
    BY <1>2, <1>7, <2>1
  <2>q. QED  BY <1>4, <2>2, <2>3, Constants
<1>9. TypeInv'
  BY <1>1, <1>2, <1>5, <1>8 DEF TypeInv, TypeOK
<1>10. PhaseInv'
  BY <1>1, <1>2, <1>4, <1>5, <1>6 DEF PhaseInv
<1>11. InterestInv'
  BY <1>1, <1>2, <1>4, <1>6, <1>8, Constants DEF InterestInv
<1>12. LiveInv'
  BY <1>1, <1>2, <1>6, <1>8, Constants DEF LiveInv
<1>13. AppInv'
  BY <1>5 DEF AppInv, AppDone
<1>14. TimerInv'
  <2>1. ~Arming(todo'[App]) /\ ~ArmingOut(todo'[App]) /\ ~On2(todo'[App]) /\ ~On3(todo'[App]) /\ AppDone(todo'[App])
    BY <1>5, AppApart DEF AppDone
  <2>2. em'[Tmr].counter = em[Tmr].counter /\ (~em[Tmr].emee => ~em'[Tmr].emee)
    BY <1>8, Constants
  <2>q. QED  BY <1>1, <1>2, <2>1, <2>2 DEF TimerInv
<1>15. ConnInv'
  <2>1. em'[Sock].flags = em[Sock].flags /\ em'[Sock].readyFlags = em[Sock].readyFlags /\ em'[Sock].active \subseteq em[Sock].active
    BY <1>8, Constants
  <2>q. QED  BY <1>1, <1>2, <1>6, <2>1 DEF ConnInv, NotYetRead
<1>16. OwnerInv'
  BY <1>3, <1>4, <1>5, <1>6, <1>8, Constants, OwnerNext
<1>17. PostedInv'
  BY <1>6 DEF PostedInv, TmrKept
<1>18. WorkerInv'
  BY <1>5, NothingNext
<1>q. QED  BY <1>1, <1>2, <1>9, <1>10, <1>11, <1>12, <1>13, <1>14, <1>15, <1>16, <1>17, <1>18 DEF IndInv

-----------------------------------------------------------------------------
(* The initial states, and every step.                                     *)

\* The events are as the constructors and the registrations leave them.
LEMMA FirstEvents ==
    ASSUME Init
    PROVE  /\ em \in [Events -> EventType]
           /\ em[Sfd].live /\ em[Sfd].emee /\ em[Sfd].ev = "added" /\ em[Sfd].flags = {"READ", "PERSIST"}
           /\ em[Efd].live /\ em[Efd].emee /\ em[Efd].ev = "added"
           /\ em[Tmr] = NewEvent({"READ"}) /\ em[Sock] = NewEvent({})
<1>1. {"READ", "PERSIST"} \in SUBSET EvFlags /\ {"READ"} \in SUBSET EvFlags /\ {} \in SUBSET EvFlags
  BY DEF EvFlags
<1>2. ASSUME NEW f \in SUBSET EvFlags
      PROVE  NewEvent(f) \in EventType
  BY <1>2, BoundsAssumption DEF NewEvent, EventType
<1>3. PICK n \in EventType : n = NewEvent({"READ", "PERSIST"})
  BY <1>1, <1>2
<1>4. n.live = TRUE /\ n.flags = {"READ", "PERSIST"}
  BY <1>3 DEF NewEvent
<1>5. PICK r \in EventType : r = [n EXCEPT !.ev = "added", !.emee = TRUE]
  BY DEF EventType
<1>6. r.live = TRUE /\ r.flags = {"READ", "PERSIST"} /\ r.ev = "added" /\ r.emee = TRUE
  BY <1>4, <1>5 DEF EventType
<1>7. r = Registered({"READ", "PERSIST"})
  BY <1>3, <1>5 DEF Registered
<1>9. em = [e \in Events |-> IF e \in {Sfd, Efd} THEN r ELSE NewEvent(IF e = Tmr THEN {"READ"} ELSE {})]
  BY <1>7 DEF Init
<1>10. em[Sfd] = r /\ em[Efd] = r /\ em[Tmr] = NewEvent({"READ"}) /\ em[Sock] = NewEvent({})
  BY <1>9, Constants
<1>11. em \in [Events -> EventType]
  BY <1>1, <1>2, <1>9
<1>q. QED  BY <1>6, <1>10, <1>11

\* The invariant holds when the client has asked for its first connection.
LEMMA StartsSafe ==
    ASSUME Init
    PROVE  IndInv
<1> DEFINE s == <<Step("write", Efd, "", {})>>
<1>1. s \in Seq(StepType) /\ AppWrite(s)
  BY SingleStep, Names, Constants DEF AppWrite
<1>2. todo = [t \in Threads |-> IF t = App THEN s ELSE <<>>]
  BY DEF Init, WriteEfd
<1>3. <<>> \in Seq(StepType)
  BY EmptySeq
<1> HIDE DEF s
<1>4. /\ todo \in [Threads -> Seq(StepType)] /\ DOMAIN todo = Threads
      /\ todo[App] = s /\ todo[Worker] = <<>> /\ todo[Owner] = <<>>
  BY <1>1, <1>2, <1>3, Constants
<1>5. /\ interest = {Sfd, Efd} /\ ready = {} /\ out = {} /\ alive = TRUE
      /\ lock = [l \in Locks |-> Free] /\ pc = [worker |-> "begin", owner |-> "run"]
      /\ cb = [e |-> Sfd, flags |-> {}] /\ batch = {} /\ thrown = FALSE
      /\ app = [conn |-> "new", wire |-> {}, timer |-> "idle", entry |-> FALSE, posted |-> FALSE, registered |-> FALSE,
                left |-> MaxRequests, quit |-> FALSE, stop |-> FALSE]
  BY DEF Init
<1>6. app \in AppType /\ cb \in [e : Events, flags : SUBSET EvFlags]
  BY <1>5, BoundsAssumption, Constants DEF AppType
<1>7. TypeInv
  BY <1>4, <1>5, <1>6, FirstEvents, Constants DEF TypeInv, TypeOK
<1>8. PhaseInv
  BY <1>4, <1>5 DEF PhaseInv
<1>9. InterestInv
  BY <1>5, FirstEvents DEF InterestInv
<1>10. em[Tmr].live = TRUE /\ em[Tmr].emee = FALSE /\ em[Tmr].counter = 0
  BY FirstEvents DEF NewEvent
<1>11. em[Sock].live = TRUE /\ em[Sock].flags = {} /\ em[Sock].active = {} /\ em[Sock].readyFlags = {}
  BY FirstEvents DEF NewEvent
<1>12. LiveInv
  BY <1>10, <1>11, FirstEvents DEF LiveInv
<1>13. AppInv
  BY <1>1, <1>4 DEF AppInv, AppDone
<1>14. TimerInv
  <2>1. ~Arming(todo[App]) /\ ~On2(todo[App]) /\ ~On3(todo[App])
    BY <1>1, <1>4, AppApart DEF AppDone
  <2>2. Tmr \notin interest
    BY <1>5, Constants
  <2>q. QED  BY <1>5, <1>10, <2>1, <2>2 DEF TimerInv
<1>15. ConnInv
  <2>1. Sock \notin interest
    BY <1>5, Constants
  <2>q. QED  BY <1>5, <1>11, <2>1 DEF ConnInv, NotYetRead
<1>16. OwnerInv
  BY <1>4, <1>5 DEF OwnerInv, SockClose, First
<1>17. WorkerInv
  <2>1. AfterEfd(todo[Worker], FALSE, FALSE)
    BY <1>4 DEF AfterEfd, AfterSock
  <2>2. Reading(todo[Worker], FALSE, FALSE)
    BY <2>1 DEF Reading
  <2>3. ~EfdOut(todo[Worker], FALSE, FALSE) /\ ~EfdAdd1(todo[Worker], FALSE, FALSE)
    BY <2>1, QueueApart
  <2>4. OfQueue(todo[Worker], FALSE, FALSE)
    BY <2>2, <2>3 DEF OfQueue
  <2>q. QED  BY <2>4 DEF WorkerInv
<1>18. PostedInv
  BY <1>5 DEF PostedInv
<1>q. QED  BY <1>5, <1>7, <1>8, <1>9, <1>12, <1>13, <1>14, <1>15, <1>16, <1>17, <1>18 DEF IndInv

\* The invariant is one of the variables alone.
LEMMA Stutters ==
    ASSUME IndInv, UNCHANGED vars
    PROVE  IndInv'
<1>1. UNCHANGED <<em, interest, ready, out, alive, lock, todo, pc, cb, batch, app, thrown>>
  BY DEF vars
<1>2. TypeInv' /\ PhaseInv' /\ InterestInv'
  BY <1>1 DEF IndInv, TypeInv, TypeOK, PhaseInv, InterestInv
<1>3. LiveInv' /\ TimerInv' /\ AppInv'
  BY <1>1 DEF IndInv, LiveInv, TimerInv, AppInv
<1>4. ConnInv'
  BY <1>1 DEF IndInv, ConnInv, NotYetRead
<1>5. OwnerInv'
  BY <1>1 DEF IndInv, OwnerInv
<1>6. PostedInv' /\ (TmrKept' <=> TmrKept)
  BY <1>1 DEF IndInv, PostedInv, TmrKept
<1>7. WorkerInv'
  BY <1>1, <1>6, WorkerSame DEF IndInv
<1>q. QED  BY <1>1, <1>2, <1>3, <1>4, <1>5, <1>6, <1>7 DEF IndInv

\* Every step of every thread keeps the invariant.
LEMMA StepsSafe ==
    ASSUME IndInv, [Next]_vars
    PROVE  IndInv'
<1>1. CASE WorkerStep
  BY <1>1, WorkerCall, Releases, LocksPoller, Fires, LoopMoves, HandlesCallback, TimerTicks, GetsReadyEvents,
     PollReturnsEvents, GetsReady, Handles, HandlingEnds DEF WorkerStep
<1>2. CASE AppStep
  BY <1>2, AppCall, Posts DEF AppStep
<1>3. CASE OwnerStep
  BY <1>3, OwnerCall, ConnectionIsClosed, ClosesConnection, DropsPool, DetachesHandlers, HandlersAreDetached, DestroysPoller
     DEF OwnerStep
<1>4. CASE Perform \/ Shutdown \/ Expire \/ SocketReady \/ PeerAccepts \/ PeerAnswers
  BY <1>4, Performs, ShutsDown, Expires, SocketIsReady, PeerDoesAccept, PeerDoesAnswer
<1>5. CASE UNCHANGED vars
  BY <1>5, Stutters
<1>q. QED  BY <1>1, <1>2, <1>3, <1>4, <1>5 DEF Next

-----------------------------------------------------------------------------
(* What the invariant says of the threads' next steps.                     *)

\* The application's thread uses the queue and the timer, which live till the pool
\* is dropped, and then it is done.
LEMMA AppUsesLive ==
    ASSUME IndInv, todo[App] # <<>>
    PROVE  em[Arg(App).e].live
<1>1. em[Efd].live /\ em[Tmr].live
  BY DEF IndInv, PhaseInv, LiveInv
<1>2. Head(todo[App]).e \in {Efd, Tmr}
  BY DEF IndInv, AppInv, AppDone, Arming, ArmingOut, AppWrite, AppPost, On1, On2, On3, TimeOn, AppUnlock, AppFree, AppFind,
     AppTake, First
<1>q. QED  BY <1>1, <1>2 DEF Arg

\* The worker uses the timer only while it keeps the owner from deleting it.
LEMMA WorkerUsesLive ==
    ASSUME IndInv, todo[Worker] # <<>>
    PROVE  em[Arg(Worker).e].live
<1> DEFINE s == todo[Worker]
<1>1. em[Efd].live /\ em[Sock].live /\ (TmrKept => em[Tmr].live)
  BY WorkerLives
<1>2. ASSUME NEW sk \in BOOLEAN, NEW tm \in BOOLEAN, OfQueue(s, sk, tm), tm => TmrAhead
      PROVE  Head(s).e \in {Efd, Sock} \/ (Head(s).e = Tmr /\ TmrKept)
  <2>1. AfterEfd(s, sk, tm) => Head(s).e = Sock \/ (Head(s).e = Tmr /\ tm)
    BY DEF AfterEfd, AfterSock, SockAdd4, TmrAdd4, First
  <2>2. Reading(s, sk, tm) => Head(s).e = Efd \/ AfterEfd(s, sk, tm)
    BY DEF Reading, EfdOut, EfdTake, EfdFind, EfdDel2, EfdDel1, EfdFree, EfdAdd2, EfdAdd1, EfdUnlock, First
  <2>q. QED  BY <1>2, <2>1, <2>2 DEF OfQueue, TmrAhead
<1>3. ASSUME NEW tm \in BOOLEAN, OfSock(s, tm)
      PROVE  Head(s).e = Sock
  BY <1>3 DEF OfSock, SockAdding, SockAdd3, SockAdd2, SockAdd1, First
<1>4. OfTmr(s) => Head(s).e = Tmr /\ TmrKept
  BY DEF OfTmr, TmrAdding, TmrAdd3, TmrAdd2, TmrAdd1, First
<1>5. OfMod(s) => Head(s).e = Sock
  BY DEF OfMod, SockMoving, SockMod4, SockMod3, SockMod2, SockMod1, First
<1>6. OfSettle(s) => Head(s).e = Tmr /\ TmrKept
  BY DEF OfSettle, Settling, SettleOut, TmrTake, TmrFind, TmrDel2, TmrDel1, TmrUnlock, TimeOff, Off3, Off2, Off1, Release,
     TmrFree, TmrBack2, TmrBack1, First
<1>7. WorkerInv
  BY DEF IndInv
<1> HIDE DEF s
<1>8. Head(s).e \in {Efd, Sock} \/ (Head(s).e = Tmr /\ TmrKept)
  BY <1>2, <1>3, <1>4, <1>5, <1>6, <1>7 DEF WorkerInv, s
<1>q. QED  BY <1>1, <1>8 DEF Arg, s

\* The owner closes each event once, and the reactor's own after the poller took
\* its ev_.
LEMMA OwnerUsesLive ==
    ASSUME IndInv, todo[Owner] # <<>>
    PROVE  /\ em[Arg(Owner).e].live \/ Arg(Owner).do \in {"handled", "detached"}
           /\ ~alive => em[Arg(Owner).e].ev = "none"
<1> DEFINE s == todo[Owner]
<1>1. OwnerInv /\ LiveInv /\ PhaseInv /\ pc.owner \in {"run", "close", "drop", "detach", "join", "done"}
  BY DEF IndInv, TypeInv, TypeOK
<1>2. /\ ShutWrite(s) \/ SfdClose(s) => Head(s).e = Sfd
      /\ SockClose(s) => Head(s).e = Sock
      /\ PoolClose(s) \/ TmrClose(s) => Head(s).e = Tmr
      /\ SockHandled(s) \/ Detaching(s) => Head(s).do \in {"handled", "detached"}
  BY DEF ShutWrite, SfdClose, SockClose, PoolClose, TmrClose, SockHandled, Detaching, First
<1>3. \A tm \in BOOLEAN : Unbinding(s, tm) => Head(s).e = Efd
  BY DEF Unbinding, Unbind4, Unbind3, Unbind2, Unbind1, QueueClose, First
<1>4. \/ ShutWrite(s) /\ pc.owner = "close"
      \/ SockClose(s) /\ em[Sock].live /\ pc.owner = "drop"
      \/ SockHandled(s) /\ pc.owner = "drop"
      \/ PoolClose(s) /\ em[Tmr].live /\ pc.owner = "detach"
      \/ Detaching(s) /\ pc.owner = "join"
      \/ TmrClose(s) /\ em[Tmr].live /\ pc.owner = "join"
      \/ (\E tm \in BOOLEAN : Unbinding(s, tm)) /\ em[Efd].live /\ pc.owner = "join"
      \/ SfdClose(s) /\ em[Sfd].live /\ em[Sfd].ev = "none"
  BY <1>1 DEF OwnerInv
<1>5. pc.owner # "done" => em[Sfd].live /\ alive
  BY <1>1 DEF LiveInv, PhaseInv
<1> HIDE DEF s
<1>6. \/ Head(s).e = Sfd /\ em[Sfd].live /\ (alive \/ em[Sfd].ev = "none")
      \/ Head(s).e = Sock /\ em[Sock].live /\ alive
      \/ Head(s).e = Tmr /\ em[Tmr].live /\ alive
      \/ Head(s).e = Efd /\ em[Efd].live /\ alive
      \/ Head(s).do \in {"handled", "detached"} /\ alive
  BY <1>2, <1>3, <1>4, <1>5
<1>q. QED  BY <1>6 DEF Arg, s

\* The invariant is as strong as it has to be.
LEMMA SafeUses ==
    ASSUME IndInv
    PROVE  NoFreedEvent
<1>1. TypeInv /\ PhaseInv /\ InterestInv /\ LiveInv /\ ~thrown
  BY DEF IndInv
<1>2. \A e \in interest \cup ready \cup out : em[e].live
  BY <1>1 DEF InterestInv
<1>3. pc.worker = "tick" => em[cb.e].live
  BY <1>1 DEF InterestInv
<1>4. ASSUME pc.worker = "handle", NEW b \in batch, b.e # Tmr
      PROVE  em[b.e].live
  <2>1. em[Sfd].live /\ em[Efd].live /\ em[Sock].live
    BY <1>1, <1>4 DEF PhaseInv, LiveInv
  <2>2. b.e \in Events
    BY <1>1, <1>4 DEF TypeInv, TypeOK
  <2>q. QED  BY <1>4, <2>1, <2>2 DEF Events
<1>5. \A t \in Threads : todo[t] # <<>> => em[Arg(t).e].live \/ Arg(t).do \in {"handled", "detached"}
  BY AppUsesLive, WorkerUsesLive, OwnerUsesLive DEF Threads
<1>6. ~alive /\ Doing(Owner, "close") => em[Arg(Owner).e].ev = "none"
  BY OwnerUsesLive DEF Doing
<1>q. QED  BY <1>1, <1>2, <1>3, <1>4, <1>5, <1>6 DEF NoFreedEvent

-----------------------------------------------------------------------------
\* The invariant holds in every state of the specification.
THEOREM EventsInvariant == Spec => []IndInv
<1>1. Init => IndInv
  BY StartsSafe
<1>2. IndInv /\ [Next]_vars => IndInv'
  BY StepsSafe
<1>q. QED  BY <1>1, <1>2, PTL DEF Spec

\* The type invariant, with the steps that each thread's call consists of (Step,
\* CtlEx, Ctl, Settime).
THEOREM TypeCorrect == Spec => []TypeInv
<1>1. IndInv => TypeInv
  BY DEF IndInv
<1>q. QED  BY <1>1, EventsInvariant, PTL

\* No event is used by a thread, by the poller or by its destruction once it was
\* deleted (closeEvent, handleEventCallback, lockInterestMutex, Connection::close,
\* ~EventMethEpollEquivImpl), and no call of ctl fails, however the threads
\* interleave, however many requests are sent and whatever a counter can hold.
THEOREM EventsOutliveUse == Spec => []NoFreedEvent
<1>1. IndInv => NoFreedEvent
  BY SafeUses
<1>q. QED  BY <1>1, EventsInvariant, PTL
=============================================================================
