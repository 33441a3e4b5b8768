----------------------------- MODULE HostProofs -----------------------------
(***************************************************************************)
(* The host for every number of processes, runs of init and settings: the  *)
(* socket path, the listeners and the registry lock, what is presented to  *)
(* OpenBao, what the start phase relies on, and the directories of init.   *)
(***************************************************************************)
EXTENDS Host, TLAPS

ProcessFields == {"pc", "token", "opened", "grace", "requests", "failure"}

\* A record with the fields of a process, whatever their values.
Shaped(r) == r = [x \in ProcessFields |-> r[x]]

ShapeInv == /\ proc = [p \in Processes |-> proc[p]]
            /\ \A p \in Processes : Shaped(proc[p])

Serving(pc) == pc \in {"health", "metrics", "ready", "serving"}

Listening(pc) == Serving(pc) \/ pc \in {"draining", "stopping"}

\* The lock has one holder: the only process that is past LockState.
LockInv ==
  /\ \A p \in lock : p \in Processes
  /\ \A p, q \in lock : p = q
  /\ \A p \in Processes : p \in lock <=> proc[p].pc \notin {"off", "locking"}

\* Only the holder of the lock has the path, from its bind to its shutdown,
\* or listens on a port.
PathInv ==
  /\ \A p \in Processes : path = p <=> Serving(proc[p].pc)
  /\ \A l \in bound : l.by \in Processes => Listening(proc[l.by].pc)

IInv == ShapeInv /\ LockInv /\ PathInv

-----------------------------------------------------------------------------
\* Init establishes the invariant: nobody has started.
LEMMA IInvInit == Init => IInv
<1>. SUFFICES ASSUME Init PROVE IInv
  OBVIOUS
<1>1. PICK setting \in Settings : path = PathOf(setting) /\ bound = PortsOf(setting)
  BY DEF Init
<1>2. lock = {} /\ proc = [p \in Processes |-> Off("none")]
  BY DEF Init
<1>3. Shaped(Off("none")) /\ Off("none").pc = "off"
  BY DEF Off, Shaped, ProcessFields
<1>. HIDE DEF Off
<1>. QED BY <1>1, <1>2, <1>3, ProviderAssumption
         DEF IInv, ShapeInv, LockInv, PathInv, Serving, Listening

-----------------------------------------------------------------------------
\* An ended process.
LEMMA OffShape == \A reason : Shaped(Off(reason)) /\ Off(reason).pc = "off"
BY Zenon DEF Off, Shaped, ProcessFields

\* A process that changes some fields keeps the others.
LEMMA GoesShape ==
  ASSUME ShapeInv, NEW p \in Processes, NEW pc
  PROVE Shaped([proc[p] EXCEPT !.pc = pc]) /\ [proc[p] EXCEPT !.pc = pc].pc = pc
BY DEF ShapeInv, Shaped, ProcessFields

\* What a step of process p does to what the processes share when it becomes
\* r: it takes the lock only when that is free, touches the path only while
\* it holds the lock, and leaves the listeners of the others.
Respects(p, r) ==
  /\ lock' = IF r.pc \in {"off", "locking"} THEN lock \ {p} ELSE lock \cup {p}
  /\ r.pc \in {"off", "locking"} \/ p \in lock \/ lock = {}
  /\ \/ path' = path /\ Serving(r.pc) = Serving(proc[p].pc)
     \/ /\ p \in lock
        /\ IF Serving(r.pc) THEN path' = p ELSE path' \notin Processes
  /\ \A l \in bound' : /\ l \in bound \/ l.by = p
                       /\ l.by = p => Listening(r.pc)

\* Such a step keeps the invariant.
LEMMA MoveStep ==
  ASSUME IInv, NEW p \in Processes, NEW r, Shaped(r), Becomes(p, r), Respects(p, r)
  PROVE IInv'
<1>1. \A q \in Processes : proc'[q] = IF q = p THEN r ELSE proc[q]
  BY DEF IInv, ShapeInv, Becomes
<1>2. ShapeInv'
  BY DEF IInv, ShapeInv, Becomes
<1>3. LockInv'
  BY <1>1 DEF IInv, LockInv, Respects
<1>4. ASSUME NEW q \in Processes PROVE path' = q <=> Serving(proc'[q].pc)
  <2>1. CASE path' = path /\ Serving(r.pc) = Serving(proc[p].pc)
    BY <1>1, <2>1 DEF IInv, PathInv
  <2>2. CASE p \in lock /\ IF Serving(r.pc) THEN path' = p ELSE path' \notin Processes
    <3>1. q # p => ~Serving(proc[q].pc)
      BY <2>2 DEF IInv, LockInv, Serving
    <3>. QED BY <1>1, <2>2, <3>1
  <2>. QED BY <2>1, <2>2 DEF Respects
<1>5. ASSUME NEW l \in bound', l.by \in Processes PROVE Listening(proc'[l.by].pc)
  <2>1. (l \in bound \/ l.by = p) /\ (l.by = p => Listening(r.pc))
    BY DEF Respects
  <2>2. CASE l.by = p
    BY <1>1, <2>1, <2>2
  <2>3. CASE l.by # p
    <3>1. Listening(proc[l.by].pc)
      BY <1>5, <2>1, <2>3 DEF IInv, PathInv
    <3>2. proc'[l.by] = proc[l.by]
      BY <1>1, <1>5, <2>3
    <3>. QED BY <3>1, <3>2
  <2>. QED BY <2>2, <2>3
<1>. QED BY <1>2, <1>3, <1>4, <1>5 DEF IInv, PathInv

-----------------------------------------------------------------------------
\* Before its bind a process has neither the path nor a listener.
Early == {"building", "probing", "opening", "verifying", "listening", "removing", "binding"}

\* A step before the bind that does not touch the path: the start goes on, or
\* is given up.
LEMMA EarlyStep ==
  ASSUME IInv, NEW p \in Processes, UNCHANGED <<path, bound>>,
         \/ /\ proc[p].pc \in Early /\ UNCHANGED lock
            /\ \E r : Shaped(r) /\ r.pc \in Early /\ Becomes(p, r)
         \/ /\ proc[p].pc \in Early \cup {"locking"}
            /\ \E reason : Fail(p, reason)
  PROVE IInv'
<1>1. \A l \in bound : l.by # p
  BY DEF IInv, PathInv, Early, Serving, Listening
<1>2. CASE /\ proc[p].pc \in Early /\ UNCHANGED lock
           /\ \E r : Shaped(r) /\ r.pc \in Early /\ Becomes(p, r)
  <2>1. PICK r : Shaped(r) /\ r.pc \in Early /\ Becomes(p, r)
    BY <1>2
  <2>2. p \in lock
    BY <1>2 DEF IInv, LockInv, Early
  <2>3. Respects(p, r)
    BY <1>1, <1>2, <2>1, <2>2 DEF Respects, Early, Serving
  <2>. QED BY <2>1, <2>3, MoveStep
<1>3. CASE proc[p].pc \in Early \cup {"locking"} /\ \E reason : Fail(p, reason)
  <2>1. PICK reason : Fail(p, reason)
    BY <1>3
  <2>2. Respects(p, Off(reason))
    BY <1>1, <1>3, <2>1, OffShape DEF Respects, Early, Serving, Fail
  <2>. QED BY <2>1, <2>2, OffShape, MoveStep DEF Fail
<1>. QED BY <1>2, <1>3

\* A failed attempt goes on with the next one or gives up.
LEMMA AttemptStep ==
  ASSUME IInv, NEW p \in Processes, NEW reason, proc[p].pc \in Early,
         AttemptFails(p, reason), UNCHANGED <<path, bound>>
  PROVE IInv'
<1>1. CASE Fail(p, reason)
  BY <1>1, EarlyStep
<1>2. CASE UNCHANGED lock /\ \E left :
             Becomes(p, [proc[p] EXCEPT !.pc = "probing", !.opened = {}, !.grace = left])
  <2>1. PICK left :
          Becomes(p, [proc[p] EXCEPT !.pc = "probing", !.opened = {}, !.grace = left])
    BY <1>2, ZenonT(30)
  <2>. DEFINE r == [proc[p] EXCEPT !.pc = "probing", !.opened = {}, !.grace = left]
  <2>2. Shaped(r) /\ r.pc = "probing"
    BY Zenon DEF IInv, ShapeInv, Shaped, ProcessFields
  <2>. HIDE DEF r
  <2>3. Becomes(p, r)
    BY <2>1 DEF r
  <2>. QED BY <1>2, <2>2, <2>3, EarlyStep DEF Early
<1>. QED BY <1>1, <1>2, ZenonT(30) DEF AttemptFails

\* The steps of a start up to the bind.
LEMMA StartSteps ==
  ASSUME IInv, NEW p \in Processes,
         \/ Build(p) \/ StatIdentity(p) \/ OpenIdentity(p) \/ LoginJWTFile(p)
         \/ Login(p) \/ Probe(p) \/ BackedOff(p) \/ PrepareTarget(p)
  PROVE IInv'
<1>0. ASSUME NEW pc \in Early, Goes(p, pc), UNCHANGED lock, proc[p].pc \in Early,
             UNCHANGED <<path, bound>>
      PROVE IInv'
  BY <1>0, GoesShape, EarlyStep, ZenonT(30) DEF Goes, IInv
<1>1. CASE Build(p)
  <2>1. UNCHANGED <<path, bound>> /\ proc[p].pc = "building"
    BY <1>1 DEF Build
  <2>2. CASE \E reason : Fail(p, reason)
    BY <2>1, <2>2, EarlyStep DEF Early
  <2>3. CASE UNCHANGED lock /\ \E g : Becomes(p, [proc[p] EXCEPT !.pc = "probing", !.grace = g])
    <3>1. PICK g : Becomes(p, [proc[p] EXCEPT !.pc = "probing", !.grace = g])
      BY <2>3, ZenonT(30)
    <3>2. LET r == [proc[p] EXCEPT !.pc = "probing", !.grace = g]
          IN Shaped(r) /\ r.pc = "probing"
      BY ZenonT(30) DEF IInv, ShapeInv, Shaped, ProcessFields
    <3>. QED BY <2>1, <2>3, <3>1, <3>2, EarlyStep, ZenonT(30) DEF Early
  <2>. QED BY <1>1, <2>2, <2>3, ZenonT(30) DEF Build
<1>2. CASE StatIdentity(p)
  BY <1>0, <1>2, AttemptStep DEF StatIdentity, Early
<1>3. CASE OpenIdentity(p)
  <2>1. UNCHANGED <<path, bound>> /\ proc[p].pc = "opening"
    BY <1>3 DEF OpenIdentity
  <2>2. CASE AttemptFails(p, "login")
    BY <2>1, <2>2, AttemptStep DEF Early
  <2>3. CASE UNCHANGED lock /\ \E o : Becomes(p, [proc[p] EXCEPT !.pc = "verifying", !.opened = o])
    <3>1. PICK o : Becomes(p, [proc[p] EXCEPT !.pc = "verifying", !.opened = o])
      BY <2>3, ZenonT(30)
    <3>2. LET r == [proc[p] EXCEPT !.pc = "verifying", !.opened = o]
          IN Shaped(r) /\ r.pc = "verifying"
      BY ZenonT(30) DEF IInv, ShapeInv, Shaped, ProcessFields
    <3>. QED BY <2>1, <2>3, <3>1, <3>2, EarlyStep, ZenonT(30) DEF Early
  <2>. QED BY <1>3, <2>2, <2>3, ZenonT(30) DEF OpenIdentity
<1>4. ASSUME NEW presented, NEW ready, LoginWith(p, presented, ready), proc[p].pc \in Early
      PROVE IInv'
  <2>1. UNCHANGED <<path, bound>>
    BY <1>4 DEF LoginWith
  <2>2. CASE AttemptFails(p, "login")
    BY <1>4, <2>1, <2>2, AttemptStep
  <2>. DEFINE r == [proc[p] EXCEPT !.pc = "probing", !.token = TRUE, !.opened = {}]
  <2>3. CASE Becomes(p, r) /\ UNCHANGED lock
    <3>1. Shaped(r) /\ r.pc = "probing"
      BY Zenon DEF IInv, ShapeInv, Shaped, ProcessFields
    <3>. HIDE DEF r
    <3>. QED BY <1>4, <2>1, <2>3, <3>1, EarlyStep DEF Early
  <2>. QED BY <1>4, <2>2, <2>3 DEF LoginWith
<1>5. CASE LoginJWTFile(p) \/ Login(p)
  BY <1>4, <1>5, ZenonT(30) DEF LoginJWTFile, Login, Early
<1>6. CASE Probe(p)
  <2>1. UNCHANGED <<path, bound>> /\ proc[p].pc = "probing"
    BY <1>6, ZenonT(30) DEF Probe
  <2>2. (Goes(p, "listening") /\ UNCHANGED lock) \/ \E reason : AttemptFails(p, reason)
    BY <1>6, ZenonT(30) DEF Probe
  <2>. QED BY <1>0, <2>1, <2>2, AttemptStep DEF Early
<1>7. CASE BackedOff(p)
  BY <1>7, AttemptStep DEF BackedOff, Early
<1>8. CASE PrepareTarget(p)
  <2>1. UNCHANGED <<path, bound>> /\ proc[p].pc = "listening"
    BY <1>8, ZenonT(30) DEF PrepareTarget
  <2>2. \/ \E reason : Fail(p, reason)
        \/ \E pc \in {"removing", "binding"} : Goes(p, pc) /\ UNCHANGED lock
    BY <1>8 DEF PrepareTarget
  <2>. QED BY <1>0, <2>1, <2>2, EarlyStep, ZenonT(30) DEF Early
<1>. QED BY <1>1, <1>2, <1>3, <1>5, <1>6, <1>7, <1>8

\* The start of a process and the lock that excludes the others.
LEMMA LockSteps ==
  ASSUME IInv, NEW p \in Processes, Start(p) \/ LockState(p)
  PROVE IInv'
<1>0. /\ UNCHANGED <<path, bound>> /\ proc[p].pc \in {"off", "locking"}
      /\ p \notin lock /\ \A l \in bound : l.by # p
  BY ZenonT(30) DEF Start, LockState, IInv, LockInv, PathInv, Serving, Listening
<1>1. ASSUME NEW r, Shaped(r), Becomes(p, r), r.pc \in {"off", "locking"}, lock' = lock \ {p}
      PROVE IInv'
  BY <1>0, <1>1, MoveStep DEF Respects, Serving
<1>2. \A reason : Fail(p, reason) => IInv'
  BY <1>1, OffShape DEF Fail
<1>3. CASE Start(p)
  <2>1. lock' = lock \ {p}
    BY <1>0, <1>3 DEF Start
  <2>2. (\E reason : Becomes(p, Off(reason))) \/ Becomes(p, [proc[p] EXCEPT !.pc = "locking"])
    BY <1>3 DEF Start, Goes
  <2>. QED BY <1>1, <2>1, <2>2, OffShape, GoesShape, ZenonT(30) DEF IInv
<1>4. CASE LockState(p)
  <2>1. CASE \E reason : Fail(p, reason)
    BY <1>2, <2>1
  <2>2. CASE lock = {} /\ lock' = {p} /\ Goes(p, "building")
    <3>. DEFINE r == [proc[p] EXCEPT !.pc = "building"]
    <3>1. Shaped(r) /\ r.pc = "building" /\ Becomes(p, r)
      BY <2>2, GoesShape DEF IInv, Goes
    <3>. HIDE DEF r
    <3>2. Respects(p, r)
      BY <1>0, <2>2, <3>1 DEF Respects, Serving
    <3>. QED BY <3>1, <3>2, MoveStep
  <2>. QED BY <1>4, <2>1, <2>2 DEF LockState
<1>. QED BY <1>3, <1>4

\* Taking the path: the stale socket, the bind, the listeners.
LEMMA BindSteps ==
  ASSUME IInv, NEW p \in Processes,
         RemoveStale(p) \/ BindSocket(p) \/ BindHealth(p) \/ BindMetrics(p)
  PROVE IInv'
<1>0. p \in lock /\ "absent" \notin Processes
  BY ProviderAssumption
     DEF IInv, LockInv, RemoveStale, BindSocket, BindHealth, BindMetrics
<1>1. ASSUME NEW r, Shaped(r), Becomes(p, r), Respects(p, r) PROVE IInv'
  BY <1>1, MoveStep
<1>2. CASE RemoveStale(p)
  <2>1. CASE (\E reason : Fail(p, reason)) /\ UNCHANGED path
    BY <1>2, <2>1, EarlyStep, ZenonT(30) DEF RemoveStale, Early
  <2>2. CASE path' = "absent" /\ Goes(p, "binding") /\ UNCHANGED lock
    <3>. DEFINE r == [proc[p] EXCEPT !.pc = "binding"]
    <3>1. Shaped(r) /\ r.pc = "binding" /\ Becomes(p, r)
      BY <2>2, GoesShape DEF IInv, Goes
    <3>2. bound' = bound /\ \A l \in bound : l.by # p
      BY <1>2, ZenonT(30) DEF RemoveStale, IInv, PathInv, Serving, Listening
    <3>. HIDE DEF r
    <3>3. Respects(p, r)
      BY <1>0, <2>2, <3>1, <3>2, ZenonT(30) DEF Respects, Serving
    <3>. QED BY <1>1, <3>1, <3>3
  <2>. QED BY <1>2, <2>1, <2>2, ZenonT(30) DEF RemoveStale
<1>3. CASE BindSocket(p)
  <2>1. CASE (\E reason : Fail(p, reason)) /\ UNCHANGED path
    BY <1>3, <2>1, EarlyStep, ZenonT(30) DEF BindSocket, Early
  <2>2. CASE path' = p /\ Goes(p, "health") /\ UNCHANGED lock
    <3>. DEFINE r == [proc[p] EXCEPT !.pc = "health"]
    <3>1. Shaped(r) /\ r.pc = "health" /\ Becomes(p, r)
      BY <2>2, GoesShape DEF IInv, Goes
    <3>2. bound' = bound
      BY <1>3, ZenonT(30) DEF BindSocket
    <3>. HIDE DEF r
    <3>3. Respects(p, r)
      BY <1>0, <2>2, <3>1, <3>2, ZenonT(30) DEF Respects, Serving, Listening
    <3>. QED BY <1>1, <3>1, <3>3
  <2>. QED BY <1>3, <2>1, <2>2, ZenonT(30) DEF BindSocket
<1>4. ASSUME NEW address, NEW next, BindHTTP(p, address, next), Serving(proc[p].pc),
             Serving(next)
      PROVE IInv'
  <2>1. CASE /\ Goes(p, next) /\ UNCHANGED <<lock, path>>
             /\ \A l \in bound' : l \in bound \/ l.by = p
    <3>. DEFINE r == [proc[p] EXCEPT !.pc = next]
    <3>1. Shaped(r) /\ r.pc = next /\ Becomes(p, r)
      BY <2>1, GoesShape DEF IInv, Goes
    <3>. HIDE DEF r
    <3>2. Respects(p, r)
      BY <1>0, <1>4, <2>1, <3>1 DEF Respects, Serving, Listening
    <3>. QED BY <1>1, <3>1, <3>2
  <2>2. CASE /\ Fail(p, "listener") /\ path' = "absent"
             /\ bound' = {l \in bound : l.by # p}
    <3>1. Respects(p, Off("listener"))
      BY <1>0, <2>2, OffShape, ZenonT(30) DEF Respects, Fail, Serving
    <3>. QED BY <1>1, <2>2, <3>1, OffShape DEF Fail
  <2>. QED BY <1>4, <2>1, <2>2 DEF BindHTTP
<1>5. CASE BindHealth(p) \/ BindMetrics(p)
  BY <1>4, <1>5, ZenonT(30) DEF BindHealth, BindMetrics, Serving
<1>. QED BY <1>2, <1>3, <1>5

\* Serving, draining and the ends of a process.
LEMMA ServeSteps ==
  ASSUME IInv, NEW p \in Processes,
         \/ Run(p) \/ Accept(p) \/ Answer(p) \/ Shutdown(p) \/ DrainTimesOut(p)
         \/ Drained(p) \/ Exit(p) \/ Crash(p)
  PROVE IInv'
<1>0. "absent" \notin Processes /\ "stale" \notin Processes
  BY ProviderAssumption
<1>1. proc[p].pc \notin {"off", "locking"} => p \in lock
  BY DEF IInv, LockInv
<1>2. ~Listening(proc[p].pc) => \A l \in bound : l.by # p
  BY DEF IInv, PathInv
<1>3. ASSUME NEW pc, Goes(p, pc), Respects(p, [proc[p] EXCEPT !.pc = pc]) PROVE IInv'
  BY <1>3, GoesShape, MoveStep DEF Goes, IInv
<1>4. ASSUME NEW n, Becomes(p, [proc[p] EXCEPT !.requests = n]), Listening(proc[p].pc),
             UNCHANGED <<lock, path, bound>>
      PROVE IInv'
  <2>. DEFINE r == [proc[p] EXCEPT !.requests = n]
  <2>1. Shaped(r) /\ r.pc = proc[p].pc /\ Becomes(p, r)
    BY <1>4 DEF IInv, ShapeInv, Shaped, ProcessFields
  <2>. HIDE DEF r
  <2>2. Respects(p, r)
    BY <1>1, <1>4, <2>1 DEF Respects, Listening, Serving, IInv, PathInv
  <2>. QED BY <2>1, <2>2, MoveStep, ZenonT(30)
<1>5. \A pc : [proc[p] EXCEPT !.pc = pc].pc = pc
  BY GoesShape DEF IInv
<1>6. CASE Run(p)
  <2>1. Respects(p, [proc[p] EXCEPT !.pc = "serving"])
    BY <1>1, <1>5, <1>6 DEF Run, Respects, Listening, Serving, IInv, PathInv
  <2>. QED BY <1>3, <1>6, <2>1 DEF Run
<1>7. CASE Accept(p) \/ Answer(p)
  BY <1>4, <1>7, ZenonT(30) DEF Accept, Answer, Listening, Serving
<1>8. CASE Shutdown(p)
  <2>1. Respects(p, [proc[p] EXCEPT !.pc = "draining"])
    BY <1>0, <1>1, <1>5, <1>8 DEF Shutdown, Respects, Listening, Serving
  <2>. QED BY <1>3, <1>8, <2>1 DEF Shutdown
<1>9. CASE DrainTimesOut(p)
  <2>1. Respects(p, [proc[p] EXCEPT !.pc = "stopping"])
    BY <1>1, <1>5, <1>9 DEF DrainTimesOut, Respects, Listening, Serving
  <2>. QED BY <1>3, <1>9, <2>1 DEF DrainTimesOut
<1>10. CASE Drained(p)
  <2>1. Respects(p, [proc[p] EXCEPT !.pc = "returning"])
    BY <1>1, <1>5, <1>10 DEF Drained, Respects, Serving
  <2>. QED BY <1>3, <1>10, <2>1 DEF Drained
<1>11. CASE Exit(p)
  <2>1. Respects(p, Off("none"))
    BY <1>2, <1>11, OffShape DEF Exit, Fail, Respects, Listening, Serving
  <2>. QED BY <1>11, <2>1, OffShape, MoveStep, ZenonT(30) DEF Exit, Fail
<1>12. CASE Crash(p)
  <2>1. path' # p /\ (path = p => path' \notin Processes) /\ (path # p => path' = path)
    BY <1>0, <1>12, ZenonT(30) DEF Crash
  <2>2. path = p <=> Serving(proc[p].pc)
    BY DEF IInv, PathInv
  <2>3. Respects(p, Off("none"))
    BY <1>1, <1>12, <2>1, <2>2, OffShape DEF Crash, Fail, Respects, Serving
  <2>. QED BY <1>12, <2>3, OffShape, MoveStep, ZenonT(30) DEF Crash, Fail
<1>. QED BY <1>6, <1>7, <1>8, <1>9, <1>10, <1>11, <1>12

\* Every step keeps the invariant.
LEMMA IInvStep == IInv /\ [Next]_vars => IInv'
<1>. SUFFICES ASSUME IInv, [Next]_vars PROVE IInv'
  OBVIOUS
<1>1. UNCHANGED <<lock, path, bound, proc>> => IInv'
  BY DEF IInv, ShapeInv, LockInv, PathInv
<1>2. OpenBaoChanges \/ ReplaceIdentity \/ UNCHANGED vars => UNCHANGED <<lock, path, bound, proc>>
  BY ZenonT(30) DEF OpenBaoChanges, ReplaceIdentity, vars
<1>. QED BY <1>1, <1>2, LockSteps, StartSteps, BindSteps, ServeSteps, ZenonT(30) DEF Next, Starts, Stops

-----------------------------------------------------------------------------
\* A safe entry at the path is on record as such.
FileInv == /\ identity = [x \in {"inode", "kind"} |-> identity[x]]
           /\ SafeFile(identity.kind) => identity.inode \in safe
           /\ used \subseteq safe

\* Every step keeps FileInv: what is presented passed the comparison of the
\* open file with the entry at the path.
LEMMA FileStep == FileInv /\ [Next]_vars => FileInv'
<1>. SUFFICES ASSUME FileInv, [Next]_vars PROVE FileInv'
  OBVIOUS
<1>1. UNCHANGED <<identity, safe, used>> => FileInv'
  BY DEF FileInv
<1>2. ASSUME NEW p \in Processes, LoginJWTFile(p) PROVE FileInv'
  <2>1. PICK opened : \/ used' = used
                      \/ /\ used' = used \cup {opened.inode}
                         /\ validateOpenedFile(opened, identity)
    BY <1>2 DEF LoginJWTFile, LoginWith
  <2>2. UNCHANGED <<identity, safe>>
    BY <1>2 DEF LoginJWTFile, LoginWith
  <2>. QED BY <2>1, <2>2 DEF FileInv, validateOpenedFile
<1>3. ASSUME NEW p \in Processes, Login(p) PROVE UNCHANGED <<identity, safe, used>>
  BY <1>3 DEF Login, LoginWith
<1>4. CASE ReplaceIdentity
  <2>1. /\ \E kind : identity' = [inode |-> identity.inode + 1, kind |-> kind]
        /\ safe' = IF SafeFile(identity'.kind) THEN safe \cup {identity'.inode} ELSE safe
        /\ used' = used
    BY <1>4, ZenonT(30) DEF ReplaceIdentity
  <2>. QED BY <2>1 DEF FileInv
<1>5. ASSUME NEW p \in Processes,
             \/ Start(p) \/ LockState(p) \/ Build(p) \/ StatIdentity(p) \/ OpenIdentity(p)
             \/ Probe(p) \/ BackedOff(p) \/ PrepareTarget(p) \/ RemoveStale(p)
             \/ BindSocket(p) \/ BindHealth(p) \/ BindMetrics(p) \/ Run(p) \/ Accept(p)
             \/ Answer(p) \/ Shutdown(p) \/ Stops(p) \/ Crash(p)
      PROVE UNCHANGED <<identity, safe, used>>
  BY <1>5, ZenonT(30) DEF Start, LockState, Build, StatIdentity, OpenIdentity, Probe, BackedOff,
     PrepareTarget, RemoveStale, BindSocket, BindHealth, BindMetrics, Run, Accept,
     Answer, Shutdown, Stops, DrainTimesOut, Drained, Exit, Crash
<1>6. OpenBaoChanges \/ UNCHANGED vars => UNCHANGED <<identity, safe, used>>
  BY DEF OpenBaoChanges, vars
<1>. QED BY <1>1, <1>2, <1>3, <1>4, <1>5, <1>6, ZenonT(30) DEF Next, Starts

\* Init establishes it: the first file has the first inode.
LEMMA FileInit == Init => FileInv
<1>. SUFFICES ASSUME Init PROVE FileInv
  OBVIOUS
<1>1. PICK setting \in Settings : identity = IdentityOf(setting)
  BY DEF Init
<1>2. identity = [x \in {"inode", "kind"} |-> identity[x]]
  BY <1>1, ZenonT(30) DEF IdentityOf, Deviate
<1>3. identity.inode = 1
  BY <1>1, ProviderAssumption
<1>. QED BY <1>2, <1>3 DEF Init, FileInv

-----------------------------------------------------------------------------
(* The host: what its commands do to the processes, which is nothing.      *)

\* The steps of the host that are not steps of the processes.
Installs ==
  \/ \E r \in Runs :
       \/ RunInit(r) \/ CreateFile(r) \/ WriteFile(r) \/ InterruptInit(r)
       \/ RunSetup(r) \/ SetupCommand(r) \/ Prepare(r) \/ RunInstall(r) \/ InstallNew(r)
       \/ ReplaceConfig(r) \/ Check(r) \/ StartPhase(r)
  \/ HostTick

\* A fresh host has no process either, and no JWT file.
LEMMA HostInitInv == HostInit => IInv /\ FileInv
<1>. SUFFICES ASSUME HostInit PROVE IInv /\ FileInv
  OBVIOUS
<1>1. CASE Init
  BY <1>1, IInvInit, FileInit
<1>2. CASE FreshInit
  <2>1. /\ lock = {} /\ path = "absent" /\ bound = {} /\ used = {}
        /\ proc = [p \in Processes |-> Off("none")]
        /\ identity = [inode |-> 1, kind |-> "missing"]
    BY <1>2, ZenonT(30) DEF FreshInit
  <2>2. Shaped(Off("none")) /\ Off("none").pc = "off"
    BY OffShape
  <2>3. /\ identity = [x \in {"inode", "kind"} |-> identity[x]]
        /\ ~SafeFile(identity.kind)
    BY <2>1, ZenonT(30) DEF SafeFile
  <2>. HIDE DEF Off
  <2>4. IInv
    BY <2>1, <2>2, ProviderAssumption, ZenonT(30)
       DEF IInv, ShapeInv, LockInv, PathInv, Serving, Listening
  <2>. QED BY <2>1, <2>3, <2>4, ZenonT(30) DEF FileInv
<1>. QED BY <1>1, <1>2, ZenonT(30) DEF HostInit

\* No command of the host touches a process, the lock, the path or a port.
LEMMA InstallsApart == Installs => UNCHANGED <<used, lock, path, bound, proc>>
<1>1. ASSUME NEW r \in Runs,
             \/ RunInit(r) \/ CreateFile(r) \/ WriteFile(r) \/ InterruptInit(r)
             \/ RunSetup(r) \/ Prepare(r) \/ RunInstall(r) \/ Check(r)
      PROVE UNCHANGED vars
  BY <1>1, ZenonT(30) DEF RunInit, CreateFile, WriteFile, InterruptInit, RunSetup, Prepare,
                     RunInstall, Check
<1>2. HostTick => UNCHANGED vars
  BY DEF HostTick
<1>3. ASSUME NEW r \in Runs, SetupCommand(r) \/ InstallNew(r) \/ ReplaceConfig(r) \/ StartPhase(r)
      PROVE UNCHANGED <<used, lock, path, bound, proc>>
  BY <1>3, ZenonT(30) DEF SetupCommand, InstallNew, ReplaceConfig, StartPhase
<1>. QED BY <1>1, <1>2, <1>3, ZenonT(30) DEF Installs, vars

\* install_new puts a file where none was, and the pod hides one at most.
LEMMA InstallsFile == ASSUME FileInv, Installs PROVE FileInv'
<1>0. used' = used
  BY InstallsApart
<1>1. UNCHANGED <<identity, safe>> => FileInv'
  BY <1>0 DEF FileInv
<1>2. ASSUME NEW r \in Runs,
             \/ RunInit(r) \/ CreateFile(r) \/ WriteFile(r) \/ InterruptInit(r)
             \/ RunSetup(r) \/ Prepare(r) \/ RunInstall(r) \/ Check(r)
      PROVE UNCHANGED <<identity, safe>>
  BY <1>2, ZenonT(30) DEF RunInit, CreateFile, WriteFile, InterruptInit, RunSetup, Prepare,
                     RunInstall, Check, vars
<1>3. HostTick => UNCHANGED <<identity, safe>>
  BY DEF HostTick, vars
<1>4. ASSUME NEW r \in Runs, SetupCommand(r) \/ ReplaceConfig(r)
      PROVE UNCHANGED <<identity, safe>>
  BY <1>4, ZenonT(30) DEF SetupCommand, ReplaceConfig
<1>5. ASSUME NEW r \in Runs, InstallNew(r) PROVE FileInv'
  <2>1. \/ UNCHANGED <<identity, safe>>
        \/ /\ \E inode, kind : identity' = [inode |-> inode, kind |-> kind]
           /\ safe' = IF SafeFile(identity'.kind) THEN safe \cup {identity'.inode} ELSE safe
    BY <1>5, ZenonT(30) DEF InstallNew
  <2>. QED BY <1>0, <1>1, <2>1, ZenonT(30) DEF FileInv
<1>6. ASSUME NEW r \in Runs, StartPhase(r) PROVE FileInv'
  <2>1. safe' = safe /\ (identity' = identity \/ identity' = [identity EXCEPT !.kind = "missing"])
    BY <1>6, ZenonT(30) DEF StartPhase
  <2>2. CASE identity' = [identity EXCEPT !.kind = "missing"]
    <3>1. ~SafeFile(identity'.kind)
      BY <2>2 DEF SafeFile, FileInv
    <3>. QED BY <1>0, <2>1, <2>2, <3>1 DEF FileInv
  <2>. QED BY <1>1, <2>1, <2>2
<1>. QED BY <1>1, <1>2, <1>3, <1>4, <1>5, <1>6, ZenonT(30) DEF Installs

\* Every step of the host keeps both invariants.
LEMMA HostStep == IInv /\ FileInv /\ [HostNext]_<<vars, hostVars>> => IInv' /\ FileInv'
<1>. SUFFICES ASSUME IInv, FileInv, [HostNext]_<<vars, hostVars>> PROVE IInv' /\ FileInv'
  OBVIOUS
<1>1. Installs \/ [Next]_vars
  BY ZenonT(30) DEF HostNext, Installs, Serve
<1>2. CASE Installs
  <2>1. UNCHANGED <<lock, path, bound, proc>>
    BY <1>2, InstallsApart
  <2>2. IInv'
    BY <2>1, ZenonT(30) DEF IInv, ShapeInv, LockInv, PathInv
  <2>. QED BY <1>2, <2>2, InstallsFile
<1>3. CASE [Next]_vars
  BY <1>3, IInvStep, FileStep
<1>. QED BY <1>1, <1>2, <1>3

\* Both hold on a host from the first init on.
LEMMA HostInvariance == HostSpec => [](IInv /\ FileInv)
BY HostInitInv, HostStep, PTL DEF HostSpec

\* The socket path of a process that serves leads to it, for any number of
\* processes that start, crash and drain while the host is installed and set
\* up (socket.Listen under LockState).
THEOREM HostPathIsOwned == HostSpec => []ServingOwnsPath
<1>1. IInv => ServingOwnsPath
  BY ZenonT(30) DEF IInv, PathInv, Serving, ServingOwnsPath
<1>. QED BY <1>1, HostInvariance, PTL

\* A process that has ended holds no lock, no socket path and no listener,
\* wherever its start or its shutdown ended (newServeCommand, runtime.New).
THEOREM HostEndedIsClean == HostSpec => []EndedHoldsNothing
<1>1. IInv => EndedHoldsNothing
  BY ZenonT(30) DEF IInv, LockInv, PathInv, Serving, Listening, EndedHoldsNothing
<1>. QED BY <1>1, HostInvariance, PTL

\* Only content of a file that was safe at the path is presented, however
\* often the file is replaced while it is read, and also when node-setup.sh
\* installs it (ReadJWTFile, install_new).
THEOREM HostOnlySafeContent == HostSpec => []PresentsSafeFile
<1>1. FileInv => PresentsSafeFile
  BY DEF FileInv, PresentsSafeFile
<1>. QED BY <1>1, HostInvariance, PTL

-----------------------------------------------------------------------------
(* What is activated.  The script's marker says what doctor accepted, since  *)
(* check compares the identity of the configuration before it notes its own. *)

WorldFields == {"deviates", "replaced", "loaded", "files", "host", "cred", "bao"}

NodeFields == {"dirs", "installer", "left", "config", "marker", "checked", "active"}

CheckInv ==
  /\ world = [x \in WorldFields |-> world[x]]
  /\ node = [x \in NodeFields |-> node[x]]
  /\ \A c, e \in world.loaded : c = e
  /\ node.marker = node.checked

\* Load returns one configuration at most.
LEMMA LoadOption ==
  ASSUME NEW file, NEW overrides
  PROVE \A c, e \in Load(file, overrides) : c = e
<1>1. \E cfg : Load(file, overrides) \subseteq {cfg}
  <2>. DEFINE cfg == overrides @@ file.values @@ applyDefaults @@ ZeroConfig
  <2>1. \/ Load(file, overrides) = {}
        \/ Load(file, overrides) = {[cfg EXCEPT !["auth.jwt.source"] = "file"]}
        \/ Load(file, overrides) = {cfg}
    BY ZenonT(30) DEF Load
  <2>. HIDE DEF cfg
  <2>. QED BY <2>1, ZenonT(30)
<1>. QED BY <1>1, ZenonT(30)

\* check_identity looks at the configuration that is loaded.
LEMMA CheckedIdentity ==
  ASSUME CheckInv, NEW r, check_identity(r)
  PROVE IdentityFingerprint(Cfg) = Generated(r).fingerprint
<1>1. PICK cfg \in world.loaded : IdentityFingerprint(cfg) = Generated(r).fingerprint
  BY ZenonT(30) DEF check_identity
<1>2. Cfg \in world.loaded
  BY <1>1 DEF Cfg
<1>3. Cfg = cfg
  BY <1>1, <1>2 DEF CheckInv
<1>. QED BY <1>1, <1>3, ZenonT(30)

\* Init: nothing is checked.
LEMMA CheckInit == HostInit => CheckInv
<1>. SUFFICES ASSUME HostInit PROVE CheckInv
  OBVIOUS
<1>1. /\ node = [x \in NodeFields |-> node[x]]
      /\ node.marker = {} /\ node.checked = {}
  BY ZenonT(30) DEF HostInit, NodeFields
<1>2. ASSUME NEW setting
      PROVE /\ World(setting) = [x \in WorldFields |-> World(setting)[x]]
            /\ World(setting).loaded = Load(File(setting), Overrides(setting))
  BY ZenonT(30) DEF World, WorldFields
<1>3. CASE Init
  <2>1. PICK setting : world = World(setting)
    BY <1>3 DEF Init
  <2>2. world = [x \in WorldFields |-> world[x]]
    BY <1>2, <2>1
  <2>3. world.loaded = Load(File(setting), Overrides(setting))
    BY <1>2, <2>1
  <2>4. \A c, e \in world.loaded : c = e
    BY <2>3, LoadOption
  <2>. QED BY <1>1, <2>2, <2>4 DEF CheckInv
<1>4. CASE FreshInit
  <2>. DEFINE w == World(FreshSetting)
  <2>1. w = [x \in WorldFields |-> w[x]]
    BY <1>2
  <2>. HIDE DEF w
  <2>2. \E files, bao : world = [w EXCEPT !.loaded = {}, !.files = files, !.bao = bao]
    BY <1>4, ZenonT(30) DEF FreshInit, FreshWorld, w
  <2>3. world = [x \in WorldFields |-> world[x]] /\ world.loaded = {}
    BY <2>1, <2>2, ZenonT(30) DEF WorldFields
  <2>. QED BY <1>1, <2>3, ZenonT(30) DEF CheckInv
<1>. QED BY <1>3, <1>4, ZenonT(30) DEF HostInit

\* No process changes what it finds.
LEMMA WorldKept == [Next]_vars => world' = world
<1>. SUFFICES ASSUME [Next]_vars PROVE world' = world
  OBVIOUS
<1>1. ASSUME NEW p \in Processes, LoginJWTFile(p) \/ Login(p) PROVE world' = world
  BY <1>1, ZenonT(30) DEF LoginJWTFile, Login, LoginWith
<1>2. ASSUME NEW p \in Processes,
             \/ Start(p) \/ LockState(p) \/ Build(p) \/ StatIdentity(p) \/ OpenIdentity(p)
             \/ Probe(p) \/ BackedOff(p) \/ PrepareTarget(p) \/ RemoveStale(p)
             \/ BindSocket(p) \/ BindHealth(p) \/ BindMetrics(p) \/ Run(p) \/ Accept(p)
             \/ Answer(p) \/ Shutdown(p) \/ Stops(p) \/ Crash(p)
      PROVE world' = world
  BY <1>2, ZenonT(30) DEF Start, LockState, Build, StatIdentity, OpenIdentity, Probe, BackedOff,
     PrepareTarget, RemoveStale, BindSocket, BindHealth, BindMetrics, Run, Accept,
     Answer, Shutdown, Stops, DrainTimesOut, Drained, Exit, Crash
<1>3. OpenBaoChanges \/ ReplaceIdentity \/ UNCHANGED vars => world' = world
  BY ZenonT(30) DEF OpenBaoChanges, ReplaceIdentity, vars
<1>. QED BY <1>1, <1>2, <1>3, ZenonT(30) DEF Next, Starts

\* A script leaves the configuration alone or loads another one.
LEMMA InstallsReload ==
  ASSUME CheckInv, Installs
  PROVE /\ world' = [x \in WorldFields |-> world'[x]]
        /\ \A c, e \in world'.loaded : c = e
<1>. DEFINE Reloaded == /\ world' = [x \in WorldFields |-> world'[x]]
                        /\ \/ world'.loaded = world.loaded
                           \/ \E file : world'.loaded = Load(file, <<>>)
<1>0. world' = world => Reloaded
  BY DEF CheckInv
<1>1. ASSUME NEW r \in Runs,
             \/ RunInit(r) \/ CreateFile(r) \/ WriteFile(r) \/ InterruptInit(r)
             \/ RunSetup(r) \/ Prepare(r) \/ RunInstall(r) \/ Check(r)
      PROVE world' = world
  BY <1>1, ZenonT(30) DEF RunInit, CreateFile, WriteFile, InterruptInit, RunSetup, Prepare,
                     RunInstall, Check, vars
<1>2. HostTick => world' = world
  BY DEF HostTick, vars
<1>3. ASSUME NEW field \in {"files", "bao"}, NEW value, world' = [world EXCEPT ![field] = value]
      PROVE Reloaded
  BY <1>3, ZenonT(30) DEF CheckInv, WorldFields
<1>4. ASSUME NEW file, world' = [world EXCEPT !.loaded = Load(file, <<>>)] PROVE Reloaded
  BY <1>4, ZenonT(30) DEF CheckInv, WorldFields
<1>5. ASSUME NEW r \in Runs, SetupCommand(r) PROVE Reloaded
  <2>1. world' = world \/ \E bao : world' = [world EXCEPT !["bao"] = bao]
    BY <1>5, ZenonT(30) DEF SetupCommand
  <2>. HIDE DEF Reloaded
  <2>. QED BY <1>0, <1>3, <2>1, ZenonT(30)
<1>6. ASSUME NEW r \in Runs, StartPhase(r) PROVE Reloaded
  <2>1. \E files : world' = [world EXCEPT !["files"] = files]
    BY <1>6, ZenonT(30) DEF StartPhase
  <2>. HIDE DEF Reloaded
  <2>. QED BY <1>3, <2>1, ZenonT(30)
<1>7. ASSUME NEW r \in Runs, ReplaceConfig(r) PROVE Reloaded
  <2>1. \E file : world' = [world EXCEPT !.loaded = Load(file, <<>>)]
    BY <1>7, ZenonT(30) DEF ReplaceConfig
  <2>. HIDE DEF Reloaded
  <2>. QED BY <1>4, <2>1, ZenonT(30)
<1>8. ASSUME NEW r \in Runs, InstallNew(r) PROVE Reloaded
  <2>1. CASE world' = world
    BY <1>0, <2>1
  <2>2. CASE world' # world
    <3>1. PICK field, kind, loaded :
            /\ world' = [world EXCEPT !.files[field] = kind, !.loaded = loaded]
            /\ loaded = world.loaded \/ \E file : loaded = Load(file, <<>>)
      <4>1. LET file == Head(node.left)
            IN world' = [world EXCEPT !.files[file.path] = InstalledKind(file),
                           !.loaded = IF file.path # "config" THEN @
                                      ELSE Load(DecodeDurations(Generated(r).config), <<>>)]
        BY <1>8, <2>2, ZenonT(30) DEF InstallNew
      <4>2. CASE Head(node.left).path # "config"
        <5>1. world' = [world EXCEPT !.files[Head(node.left).path] = InstalledKind(Head(node.left)),
                                     !.loaded = world.loaded]
          BY <4>1, <4>2, ZenonT(30) DEF CheckInv, WorldFields
        <5>. QED BY <5>1, ZenonT(30)
      <4>3. CASE Head(node.left).path = "config"
        <5>1. world' = [world EXCEPT !.files[Head(node.left).path] = InstalledKind(Head(node.left)),
                          !.loaded = Load(DecodeDurations(Generated(r).config), <<>>)]
          BY <4>1, <4>3, ZenonT(30)
        <5>2. \E file : Load(DecodeDurations(Generated(r).config), <<>>) = Load(file, <<>>)
          OBVIOUS
        <5>. HIDE DEF Load, DecodeDurations, Generated, InstalledKind
        <5>3. PICK loaded : loaded = Load(DecodeDurations(Generated(r).config), <<>>)
          OBVIOUS
        <5>4. world' = [world EXCEPT !.files[Head(node.left).path] = InstalledKind(Head(node.left)),
                                     !.loaded = loaded]
          BY <5>1, <5>3, ZenonT(30)
        <5>5. \E file : loaded = Load(file, <<>>)
          BY <5>2, <5>3, ZenonT(30)
        <5>. QED BY <5>4, <5>5, ZenonT(30)
      <4>. QED BY <4>2, <4>3, ZenonT(30)
    <3>2. world' = [x \in WorldFields |-> world'[x]] /\ world'.loaded = loaded
      BY <3>1, Zenon DEF CheckInv, WorldFields
    <3>. QED BY <3>1, <3>2, ZenonT(30)
  <2>. QED BY <2>1, <2>2
<1>9. Reloaded
  <2>. HIDE DEF Reloaded
  <2>. QED BY <1>0, <1>1, <1>2, <1>5, <1>6, <1>7, <1>8, ZenonT(30) DEF Installs
<1>10. CASE world'.loaded = world.loaded
  BY <1>9, <1>10 DEF CheckInv
<1>11. ASSUME NEW file, world'.loaded = Load(file, <<>>)
       PROVE \A c, e \in world'.loaded : c = e
  BY <1>11, LoadOption
<1>. QED BY <1>9, <1>10, <1>11, ZenonT(30)

\* What a step does to the notes of check: none, one more tick, or new notes
\* of the same identity.
LEMMA NotesStep ==
  ASSUME CheckInv, [HostNext]_<<vars, hostVars>>
  PROVE /\ node' = [x \in NodeFields |-> node'[x]]
        /\ node'.marker = node'.checked
<1>. DEFINE Noted == /\ node' = [x \in NodeFields |-> node'[x]]
                     /\ node'.marker = node'.checked
<1>0. node' = node => Noted
  BY DEF CheckInv
<1>1. ASSUME NEW r \in Runs,
             \/ RunInit(r) \/ CreateFile(r) \/ WriteFile(r) \/ InterruptInit(r)
             \/ RunSetup(r) \/ SetupCommand(r)
      PROVE node' = node
  BY <1>1, Zenon DEF RunInit, CreateFile, WriteFile, InterruptInit, RunSetup, SetupCommand
<1>2. ASSUME NEW r \in Runs, Prepare(r) PROVE Noted
  BY <1>2, Zenon DEF Prepare, CheckInv, NodeFields
<1>3. ASSUME NEW r \in Runs, RunInstall(r) PROVE Noted
  BY <1>3, Zenon DEF RunInstall, CheckInv, NodeFields
<1>4. ASSUME NEW r \in Runs, InstallNew(r) PROVE Noted
  <2>. DEFINE file == Head(node.left)
              installed == [node EXCEPT
                !.left = Tail(@), !.installer = IF Len(node.left) = 1 THEN {} ELSE @,
                !.config = IF file.path = "config" THEN {r} ELSE @]
  <2>1. node' = installed \/ node' = [node EXCEPT !.installer = {}, !.left = << >>]
    BY <1>4, Zenon DEF InstallNew
  <2>2. /\ installed = [x \in NodeFields |-> installed[x]]
        /\ installed.marker = node.marker /\ installed.checked = node.checked
    BY Zenon DEF CheckInv, NodeFields
  <2>. HIDE DEF installed
  <2>3. CASE node' = installed
    BY <2>2, <2>3, Zenon DEF CheckInv
  <2>4. CASE node' = [node EXCEPT !.installer = {}, !.left = << >>]
    BY <2>4, Zenon DEF CheckInv, NodeFields
  <2>. QED BY <2>1, <2>3, <2>4
<1>5. ASSUME NEW r \in Runs, ReplaceConfig(r) PROVE Noted
  BY <1>5, Zenon DEF ReplaceConfig, CheckInv, NodeFields
<1>6. ASSUME NEW r \in Runs, StartPhase(r) PROVE Noted
  BY <1>6, Zenon DEF StartPhase, CheckInv, NodeFields
<1>7. ASSUME NEW r \in Runs, Check(r) PROVE Noted
  <2>1. /\ check_identity(r)
        /\ node' = [node EXCEPT
             !.marker = {[fingerprint |-> Generated(r).fingerprint, age |-> 0]},
             !.checked = {[fingerprint |-> IdentityFingerprint(Cfg), age |-> 0]}]
    BY <1>7, ZenonT(30) DEF Check
  <2>2. IdentityFingerprint(Cfg) = Generated(r).fingerprint
    BY <2>1, CheckedIdentity
  <2>3. /\ node' = [x \in NodeFields |-> node'[x]]
        /\ node'.marker = {[fingerprint |-> Generated(r).fingerprint, age |-> 0]}
        /\ node'.checked = {[fingerprint |-> IdentityFingerprint(Cfg), age |-> 0]}
    BY <2>1, Zenon DEF CheckInv, NodeFields
  <2>. QED BY <2>2, <2>3, ZenonT(30)
<1>8. ASSUME HostTick PROVE Noted
  <2>1. node' = [node EXCEPT !.marker = Older(node.marker), !.checked = Older(node.checked)]
    BY <1>8, Zenon DEF HostTick, CheckInv, NodeFields
  <2>. HIDE DEF Older
  <2>. QED BY <2>1, Zenon DEF CheckInv, NodeFields
<1>9. Serve \/ UNCHANGED <<vars, hostVars>> => node' = node
  BY DEF Serve, hostVars
<1>. HIDE DEF Noted
<1>10. Noted
  BY <1>0, <1>1, <1>2, <1>3, <1>4, <1>5, <1>6, <1>7, <1>8, <1>9, ZenonT(30) DEF HostNext
<1>. QED BY <1>10 DEF Noted

\* Every step keeps the invariant.
LEMMA CheckStep == CheckInv /\ [HostNext]_<<vars, hostVars>> => CheckInv'
<1>. SUFFICES ASSUME CheckInv, [HostNext]_<<vars, hostVars>> PROVE CheckInv'
  OBVIOUS
<1>1. Installs \/ [Next]_vars
  BY Zenon DEF HostNext, Installs, Serve
<1>2. /\ world' = [x \in WorldFields |-> world'[x]]
      /\ \A c, e \in world'.loaded : c = e
  BY <1>1, InstallsReload, WorldKept DEF CheckInv
<1>. QED BY <1>2, NotesStep DEF CheckInv

\* start only runs what doctor accepted within the last hour, under whichever
\* generation's script it was checked (writeStartPhase, require_recent_check).
THEOREM StartsChecked == HostSpec => StartsWhatWasChecked
<1>. DEFINE Fine == node'.active # node.active =>
                      \E note \in node.checked :
                        /\ note.fingerprint = IdentityFingerprint(Cfg)
                        /\ note.age <= nodeSetupCheckMaxAge
<1>1. ASSUME CheckInv, NEW r \in Runs, StartPhase(r) PROVE Fine
  <2>1. /\ check_identity(r)
        /\ \E m \in node.marker : /\ m.fingerprint = Generated(r).fingerprint
                                  /\ m.age <= nodeSetupCheckMaxAge
    BY <1>1, ZenonT(30) DEF StartPhase, require_recent_check
  <2>2. IdentityFingerprint(Cfg) = Generated(r).fingerprint
    BY <1>1, <2>1, CheckedIdentity
  <2>3. node.marker = node.checked
    BY <1>1 DEF CheckInv
  <2>. QED BY <2>1, <2>2, <2>3, ZenonT(30)
<1>2. ASSUME CheckInv, NEW r \in Runs,
             \/ RunInit(r) \/ CreateFile(r) \/ WriteFile(r) \/ InterruptInit(r)
             \/ RunSetup(r) \/ SetupCommand(r)
      PROVE node'.active = node.active
  BY <1>2, Zenon DEF RunInit, CreateFile, WriteFile, InterruptInit, RunSetup, SetupCommand
<1>3. ASSUME CheckInv, NEW r \in Runs,
             Prepare(r) \/ RunInstall(r) \/ ReplaceConfig(r) \/ Check(r)
      PROVE node'.active = node.active
  BY <1>3, ZenonT(30) DEF Prepare, RunInstall, ReplaceConfig, Check, CheckInv, NodeFields
<1>4. ASSUME CheckInv, NEW r \in Runs, InstallNew(r) PROVE node'.active = node.active
  BY <1>4, ZenonT(30) DEF InstallNew, CheckInv, NodeFields
<1>5. ASSUME CheckInv, HostTick PROVE node'.active = node.active
  BY <1>5, ZenonT(30) DEF HostTick, CheckInv, NodeFields
<1>6. Serve => node'.active = node.active
  BY DEF Serve, hostVars
<1>7. CheckInv /\ [HostNext]_<<vars, hostVars>> => [Fine]_<<vars, hostVars>>
  <2>. SUFFICES ASSUME CheckInv, HostNext PROVE Fine
    BY ZenonT(30)
  <2>1. CASE \E r \in Runs : StartPhase(r)
    BY <1>1, <2>1
  <2>2. CASE ~\E r \in Runs : StartPhase(r)
    <3>1. node'.active = node.active
      BY <1>2, <1>3, <1>4, <1>5, <1>6, <2>2, ZenonT(30) DEF HostNext
    <3>. QED BY <3>1
  <2>. QED BY <2>1, <2>2
<1>. QED BY <1>7, CheckInit, CheckStep, PTL DEF HostSpec, StartsWhatWasChecked

-----------------------------------------------------------------------------
(* The output directories.  Every run writes config.yaml first: whoever has  *)
(* created it owns the directory, and nobody writes without having done so. *)

CommandFields == {"pc", "opts", "cfg", "files", "left"}

Directories == {"d1", "d2"}

FileNames ==
  {"config.yaml", "encryption-config.yaml", "encryption-config-readers.yaml",
   "openbao-policy.hcl", "openbao-setup.sh", "bao-kms-provider.yaml", "node-setup.sh",
   "installation.json"}

\* What is in a directory, a function of file names.
Directory(f) ==
  /\ f = [name \in DOMAIN f |-> f[name]]
  /\ \A name \in DOMAIN f : /\ f[name] = [by |-> f[name].by, whole |-> f[name].whole]
                            /\ "config.yaml" \in DOMAIN f
                            /\ f[name].by = f["config.yaml"].by

\* The directory f has the first n of the names, whole and by run r.
Written(f, names, r, n) ==
  \A i \in 1..n : names[i] \in DOMAIN f /\ f[names[i]] = [by |-> r, whole |-> TRUE]

\* left is what remains of the names after the first n.
Remains(left, names, n) ==
  /\ n \in 0..Len(names) /\ left \in Seq(FileNames) /\ Len(left) = Len(names) - n
  /\ \A i \in 1..Len(left) : left[i] = names[n + i]

\* How far a run is with the names it writes to f.
Progress(c, f, names, r) ==
  /\ c.pc \in {"off", "writing", "created", "done", "failed"}
  /\ c.pc \in {"writing", "created"} =>
       \E n \in 0..Len(names) : /\ Remains(c.left, names, n) /\ n < Len(names)
                                /\ Written(f, names, r, n)
                                /\ c.pc = "created" => /\ names[n + 1] \in DOMAIN f
                                                       /\ f[names[n + 1]].by = r
  /\ c.pc = "done" => Written(f, names, r, Len(names))

OutInv ==
  /\ command = [r \in Runs |-> command[r]]
  /\ \A r \in Runs : /\ command[r] = [x \in CommandFields |-> command[r][x]]
                     /\ \A opts \in command[r].opts : opts.dir \in Directories
                     /\ command[r].pc # "off" => command[r].opts # {}
                     /\ Progress(command[r], out[Opts(r).dir], initFiles(Opts(r)), r)
  /\ out = [d \in Directories |-> out[d]]
  /\ \A d \in Directories : Directory(out[d])

\* What is appended to a sequence leaves its first element.
LEMMA ConcatFirst ==
  ASSUME NEW S, NEW s \in Seq(S), NEW t \in Seq(S), Len(s) > 0
  PROVE s \o t \in Seq(S) /\ Len(s \o t) > 0 /\ (s \o t)[1] = s[1]
OBVIOUS

\* Every run writes config.yaml first.
LEMMA FilesOrder ==
  ASSUME NEW opts
  PROVE /\ initFiles(opts) \in Seq(FileNames)
        /\ Len(initFiles(opts)) > 0
        /\ initFiles(opts)[1] = "config.yaml"
<1>. DEFINE first == <<"config.yaml", "encryption-config.yaml", "encryption-config-readers.yaml",
                       "openbao-policy.hcl", "openbao-setup.sh">>
            last == <<"node-setup.sh", "installation.json">>
            pod == IF opts.model = "static-pod" THEN <<"bao-kms-provider.yaml">> ELSE << >>
<1>1. first \in Seq(FileNames) /\ Len(first) > 0 /\ first[1] = "config.yaml"
  BY DEF FileNames
<1>2. last \in Seq(FileNames)
  BY DEF FileNames
<1>3. pod \in Seq(FileNames)
  <2>1. <<"bao-kms-provider.yaml">> \in Seq(FileNames)
    BY DEF FileNames
  <2>2. << >> \in Seq(FileNames)
    OBVIOUS
  <2>. QED BY <2>1, <2>2, ZenonT(30)
<1>4. initFiles(opts) = first \o pod \o last
  BY ZenonT(30) DEF initFiles
<1>. HIDE DEF first, last, pod
<1>5. /\ first \o pod \in Seq(FileNames) /\ Len(first \o pod) > 0
      /\ (first \o pod)[1] = "config.yaml"
  BY <1>1, <1>3, ConcatFirst
<1>. QED BY <1>2, <1>4, <1>5, ConcatFirst

\* A file that did not exist comes into a directory: nothing else changes,
\* and whoever creates config.yaml finds the directory empty.
LEMMA CreatedFile ==
  ASSUME NEW f, Directory(f), NEW name, name \notin DOMAIN f, NEW r,
         name = "config.yaml" \/ ("config.yaml" \in DOMAIN f /\ f["config.yaml"].by = r)
  PROVE LET g == WithFile(f, name, [by |-> r, whole |-> FALSE])
        IN /\ Directory(g)
           /\ name \in DOMAIN g /\ g[name].by = r
           /\ \A x \in DOMAIN f : x \in DOMAIN g /\ g[x] = f[x]
<1>. DEFINE e == [by |-> r, whole |-> FALSE]
            g == WithFile(f, name, e)
<1>1. /\ DOMAIN g = DOMAIN f \cup {name}
      /\ g = [x \in DOMAIN g |-> g[x]]
      /\ g[name] = e
      /\ \A x \in DOMAIN f : g[x] = f[x]
  BY DEF WithFile
<1>2. e.by = r /\ e.whole = FALSE /\ e = [by |-> e.by, whole |-> e.whole]
  OBVIOUS
<1>. HIDE DEF g, e
<1>3. CASE name = "config.yaml"
  <2>1. DOMAIN f = {}
    BY <1>3 DEF Directory
  <2>. QED BY <1>1, <1>2, <1>3, <2>1, ZenonT(30) DEF Directory, g, e
<1>4. CASE name # "config.yaml"
  <2>1. \A x \in DOMAIN g : g[x] = [by |-> g[x].by, whole |-> g[x].whole] /\ g[x].by = r
    BY <1>1, <1>2, <1>4 DEF Directory
  <2>2. "config.yaml" \in DOMAIN g /\ g["config.yaml"].by = r
    BY <1>1, <1>4, <2>1
  <2>. QED BY <1>1, <1>2, <2>1, <2>2, ZenonT(30) DEF Directory, g, e
<1>. QED BY <1>3, <1>4, ZenonT(30)

\* A file is written whole by the run that has created it.
LEMMA WrittenFile ==
  ASSUME NEW f, Directory(f), NEW r, NEW name \in DOMAIN f, f[name].by = r
  PROVE LET g == [f EXCEPT ![name] = [by |-> r, whole |-> TRUE]]
        IN /\ Directory(g)
           /\ DOMAIN g = DOMAIN f /\ g[name] = [by |-> r, whole |-> TRUE]
           /\ \A x \in DOMAIN f : x # name => g[x] = f[x]
<1>. DEFINE e == [by |-> r, whole |-> TRUE]
            g == [f EXCEPT ![name] = e]
<1>1. /\ DOMAIN g = DOMAIN f
      /\ g = [x \in DOMAIN g |-> g[x]]
      /\ g[name] = e
      /\ \A x \in DOMAIN f : x # name => g[x] = f[x]
  BY Zenon DEF Directory
<1>2. e.by = r /\ e.whole = TRUE /\ e = [by |-> e.by, whole |-> e.whole]
  OBVIOUS
<1>. HIDE DEF g, e
<1>3. ASSUME NEW x \in DOMAIN f
      PROVE g[x].by = f[x].by /\ g[x] = [by |-> g[x].by, whole |-> g[x].whole]
  <2>1. CASE x = name
    BY <1>1, <1>2, <2>1, ZenonT(30)
  <2>2. CASE x # name
    BY <1>1, <2>2 DEF Directory
  <2>. QED BY <2>1, <2>2
<1>4. Directory(g)
  <2>1. ASSUME NEW x \in DOMAIN f
        PROVE /\ g[x] = [by |-> g[x].by, whole |-> g[x].whole]
              /\ "config.yaml" \in DOMAIN f /\ g[x].by = g["config.yaml"].by
    BY <1>3, Zenon DEF Directory
  <2>. QED BY <1>1, <2>1, Zenon DEF Directory
<1>. QED BY <1>1, <1>4, Zenon DEF g, e

\* What the other runs have in a directory stays when files are created, or
\* written by the run that created them.
LEMMA OthersKept ==
  ASSUME NEW c, NEW f, NEW g, NEW names, NEW q, Progress(c, f, names, q),
         \A x \in DOMAIN f : x \in DOMAIN g /\ g[x].by = f[x].by
                             /\ (f[x].whole = TRUE => g[x] = f[x])
  PROVE Progress(c, g, names, q)
<1>1. ASSUME NEW n, Written(f, names, q, n) PROVE Written(g, names, q, n)
  <2>1. ASSUME NEW i \in 1..n
        PROVE names[i] \in DOMAIN g /\ g[names[i]] = [by |-> q, whole |-> TRUE]
    <3>1. names[i] \in DOMAIN f /\ f[names[i]] = [by |-> q, whole |-> TRUE]
      BY <1>1, Zenon DEF Written
    <3>2. f[names[i]].whole = TRUE
      BY <3>1
    <3>. QED BY <3>1, <3>2
  <2>. QED BY <2>1, ZenonT(30) DEF Written
<1>2. ASSUME c.pc \in {"writing", "created"}
      PROVE \E n \in 0..Len(names) :
               /\ Remains(c.left, names, n) /\ n < Len(names)
               /\ Written(g, names, q, n)
               /\ c.pc = "created" => names[n + 1] \in DOMAIN g /\ g[names[n + 1]].by = q
  <2>1. PICK n \in 0..Len(names) :
               /\ Remains(c.left, names, n) /\ n < Len(names)
               /\ Written(f, names, q, n)
               /\ c.pc = "created" => names[n + 1] \in DOMAIN f /\ f[names[n + 1]].by = q
    BY <1>2, ZenonT(30) DEF Progress
  <2>2. Written(g, names, q, n)
    BY <1>1, <2>1
  <2>3. c.pc = "created" => names[n + 1] \in DOMAIN g /\ g[names[n + 1]].by = q
    BY <2>1
  <2>. QED BY <2>1, <2>2, <2>3, Zenon
<1>3. c.pc = "done" => Written(g, names, q, Len(names))
  BY <1>1 DEF Progress
<1>. QED BY <1>2, <1>3, Zenon DEF Progress

\* The directories are empty at first.
LEMMA OutInit == HostInit => OutInv
<1>. SUFFICES ASSUME HostInit PROVE OutInv
  OBVIOUS
<1>1. PICK plan : /\ command = [r \in Runs |-> Idle(plan[r])]
                  /\ \A r \in Runs : \A opts \in plan[r] : opts.dir \in Directories
  <2>1. CASE FreshInit
    BY <2>1, HostAssumption, Zenon DEF FreshInit, Directories
  <2>2. CASE Init /\ command = [r \in Runs |-> Idle({})]
    <3>. DEFINE none == [r \in Runs |-> {}]
    <3>1. /\ command = [r \in Runs |-> Idle(none[r])]
          /\ \A r \in Runs : \A opts \in none[r] : opts.dir \in Directories
      BY <2>2
    <3>. QED BY <3>1, Zenon
  <2>. QED BY <2>1, <2>2 DEF HostInit
<1>2. \A opts : /\ Idle(opts) = [x \in CommandFields |-> Idle(opts)[x]]
                /\ Idle(opts).pc = "off" /\ Idle(opts).opts = opts
  BY ZenonT(30) DEF Idle, CommandFields
<1>. HIDE DEF Idle
<1>3. /\ out = [d \in Directories |-> out[d]]
      /\ \A d \in Directories : out[d] = << >>
  BY DEF HostInit, Directories
<1>4. Directory(<< >>)
  BY DEF Directory
<1>5. \A r \in Runs : /\ command[r] = Idle(plan[r])
                      /\ \A opts \in command[r].opts : opts.dir \in Directories
  BY <1>1, <1>2
<1>6. \A r \in Runs : Progress(command[r], out[Opts(r).dir], initFiles(Opts(r)), r)
  BY <1>2, <1>5 DEF Progress
<1>7. command = [r \in Runs |-> command[r]]
  BY <1>1
<1>. QED BY <1>2, <1>3, <1>4, <1>5, <1>6, <1>7 DEF OutInv

\* A run that goes on in its own directory leaves the others where they are.
LEMMA RunStep ==
  ASSUME OutInv, NEW r \in Runs, command[r].opts # {},
         NEW c, c = [x \in CommandFields |-> c[x]], c.opts = command[r].opts,
         command' = [command EXCEPT ![r] = c],
         NEW g, out' = [out EXCEPT ![Opts(r).dir] = g], Directory(g),
         Progress(c, g, initFiles(Opts(r)), r),
         \A x \in DOMAIN out[Opts(r).dir] :
            /\ x \in DOMAIN g /\ g[x].by = out[Opts(r).dir][x].by
            /\ out[Opts(r).dir][x].whole = TRUE => g[x] = out[Opts(r).dir][x]
  PROVE OutInv'
<1>0. /\ command = [q \in Runs |-> command[q]] /\ out = [e \in Directories |-> out[e]]
      /\ \A e \in Directories : Directory(out[e])
      /\ \A q \in Runs : /\ command[q] = [x \in CommandFields |-> command[q][x]]
                         /\ \A opts \in command[q].opts : opts.dir \in Directories
                         /\ command[q].pc # "off" => command[q].opts # {}
                         /\ Progress(command[q], out[Opts(q).dir], initFiles(Opts(q)), q)
  BY Zenon DEF OutInv
<1>1. \A q \in Runs : command[q].opts # {} => Opts(q).dir \in Directories
  BY ONLY <1>0, Zenon DEF Opts
<1>2. PICK d \in Directories : d = Opts(r).dir
  BY <1>1, Zenon
<1>3. \A q \in Runs : command'[q] = IF q = r THEN c ELSE command[q]
  BY ONLY <1>0, command' = [command EXCEPT ![r] = c]
<1>4. \A q \in Runs : command'[q].opts = command[q].opts
  BY ONLY <1>3, c.opts = command[r].opts
<1>5. \A q \in Runs : Opts(q)' = Opts(q)
  BY ONLY <1>4 DEF Opts
<1>6. \A e \in Directories : out'[e] = IF e = d THEN g ELSE out[e]
  BY ONLY <1>0, <1>2, out' = [out EXCEPT ![Opts(r).dir] = g]
<1>7. ASSUME NEW q \in Runs
      PROVE Progress(command'[q], out'[Opts(q).dir], initFiles(Opts(q)), q)
  <2>1. CASE q = r
    BY ONLY <1>2, <1>3, <1>6, <2>1, Progress(c, g, initFiles(Opts(r)), r), q \in Runs
  <2>2. CASE q # r /\ command[q].opts = {}
    <3>1. command'[q] = command[q] /\ command[q].pc = "off"
      BY ONLY <1>0, <1>3, <2>2, q \in Runs
    <3>. QED BY ONLY <3>1 DEF Progress
  <2>3. CASE q # r /\ command[q].opts # {}
    <3>1. Opts(q).dir \in Directories /\ command'[q] = command[q]
      BY ONLY <1>1, <1>3, <2>3, q \in Runs
    <3>2. Progress(command[q], out[Opts(q).dir], initFiles(Opts(q)), q)
      BY ONLY <1>0, q \in Runs
    <3>3. CASE Opts(q).dir = d
      <4>1. Progress(command[q], g, initFiles(Opts(q)), q)
        BY <1>2, <3>2, <3>3, OthersKept, ZenonT(30)
      <4>. QED BY ONLY <1>6, <3>1, <3>3, <4>1
    <3>4. CASE Opts(q).dir # d
      BY ONLY <1>6, <3>1, <3>2, <3>4
    <3>. QED BY ONLY <3>3, <3>4
  <2>. QED BY ONLY <2>1, <2>2, <2>3
<1>8. command' = [q \in Runs |-> command'[q]] /\ out' = [e \in Directories |-> out'[e]]
  BY ONLY <1>0, command' = [command EXCEPT ![r] = c], out' = [out EXCEPT ![Opts(r).dir] = g]
<1>9. \A q \in Runs : /\ command'[q] = [x \in CommandFields |-> command'[q][x]]
                      /\ \A opts \in command'[q].opts : opts.dir \in Directories
                      /\ command'[q].pc # "off" => command'[q].opts # {}
  BY <1>0, <1>3, <1>4, Zenon
<1>10. \A e \in Directories : Directory(out'[e])
  BY ONLY <1>0, <1>6, Directory(g)
<1>. QED BY <1>5, <1>7, <1>8, <1>9, <1>10, ZenonT(30) DEF OutInv

\* Fields of a run that changes.
LEMMA CommandShape ==
  ASSUME NEW c, c = [x \in CommandFields |-> c[x]], NEW pc
  PROVE LET e == [c EXCEPT !.pc = pc]
        IN /\ e = [x \in CommandFields |-> e[x]]
           /\ e.pc = pc /\ e.opts = c.opts /\ e.left = c.left
BY DEF CommandFields

\* A run begins, finds its directory in use, or stops.
LEMMA BeginStep ==
  ASSUME OutInv, NEW r \in Runs, RunInit(r) \/ InterruptInit(r)
  PROVE OutInv'
<1>. DEFINE d == Opts(r).dir
            names == initFiles(Opts(r))
<1>0. /\ command[r] = [x \in CommandFields |-> command[r][x]] /\ out' = out
      /\ command[r].opts # {}
  BY Zenon DEF RunInit, InterruptInit, OutInv
<1>1. d \in Directories /\ Directory(out[d])
  BY <1>0, Zenon DEF OutInv, Opts
<1>2. out' = [out EXCEPT ![d] = out[d]]
  BY <1>0, <1>1 DEF OutInv
<1>. HIDE DEF names
<1>3. CASE command' = [command EXCEPT ![r] = [command[r] EXCEPT !.pc = "failed"]]
  <2>. DEFINE c == [command[r] EXCEPT !.pc = "failed"]
  <2>1. c = [x \in CommandFields |-> c[x]] /\ c.pc = "failed" /\ c.opts = command[r].opts
    BY <1>0, CommandShape
  <2>. HIDE DEF c
  <2>2. Progress(c, out[d], initFiles(Opts(r)), r)
    BY <2>1 DEF Progress
  <2>3. command' = [command EXCEPT ![r] = c]
    BY <1>3 DEF c
  <2>. QED BY <1>0, <1>1, <1>2, <2>1, <2>2, <2>3, RunStep, ZenonT(30)
<1>4. ASSUME NEW cfgs, NEW files,
             command' = [command EXCEPT ![r] =
               [command[r] EXCEPT !.pc = "writing", !.cfg = cfgs, !.files = files,
                                  !.left = names]]
      PROVE OutInv'
  <2>. DEFINE c == [command[r] EXCEPT !.pc = "writing", !.cfg = cfgs, !.files = files,
                                      !.left = names]
  <2>1. /\ c = [x \in CommandFields |-> c[x]] /\ c.opts = command[r].opts
        /\ c.pc = "writing" /\ c.left = names
    BY <1>0, Zenon DEF CommandFields
  <2>. HIDE DEF c
  <2>2. names \in Seq(FileNames) /\ Len(names) > 0
    BY FilesOrder DEF names
  <2>3. Remains(c.left, names, 0) /\ Written(out[d], names, r, 0) /\ 0 \in 0..Len(names)
    BY <2>1, <2>2 DEF Remains, Written
  <2>4. Progress(c, out[d], names, r)
    BY <2>1, <2>2, <2>3 DEF Progress
  <2>5. command' = [command EXCEPT ![r] = c]
    BY <1>4 DEF c
  <2>. QED BY <1>0, <1>1, <1>2, <2>1, <2>4, <2>5, RunStep, ZenonT(30) DEF names
<1>. QED BY <1>3, <1>4, ZenonT(30) DEF RunInit, InterruptInit, names

\* The next file of a run, and what is left after it.
LEMMA NextFile ==
  ASSUME NEW names \in Seq(FileNames), NEW n, NEW left, Remains(left, names, n), n < Len(names)
  PROVE /\ Head(left) = names[n + 1]
        /\ Tail(left) = << >> <=> n + 1 = Len(names)
        /\ Remains(Tail(left), names, n + 1)
<1>1. /\ n \in Nat /\ Len(names) \in Nat /\ left \in Seq(FileNames)
      /\ Len(left) = Len(names) - n /\ left # << >>
      /\ \A i \in 1..Len(left) : left[i] = names[n + i]
  BY DEF Remains
<1>2. /\ Tail(left) \in Seq(FileNames) /\ Len(Tail(left)) = Len(left) - 1
      /\ \A i \in 1..(Len(left) - 1) : Tail(left)[i] = left[i + 1]
      /\ Head(left) = left[1]
  BY <1>1
<1>3. Tail(left) = << >> <=> Len(Tail(left)) = 0
  <2>1. PICK rest \in Seq(FileNames) : rest = Tail(left)
    BY <1>2, Zenon
  <2>2. rest = << >> <=> Len(rest) = 0
    OBVIOUS
  <2>. QED BY <2>1, <2>2
<1>4. 1 \in 1..Len(left)
  BY <1>1
<1>5. ASSUME NEW i \in 1..Len(Tail(left)) PROVE Tail(left)[i] = names[n + 1 + i]
  <2>1. i + 1 \in 1..Len(left) /\ i \in 1..(Len(left) - 1) /\ n + (i + 1) = n + 1 + i
    BY <1>1, <1>2
  <2>. QED BY <1>1, <1>2, <2>1
<1>6. Head(left) = names[n + 1]
  BY <1>1, <1>2, <1>4
<1>7. Tail(left) = << >> <=> n + 1 = Len(names)
  BY <1>1, <1>2, <1>3
<1>8. Remains(Tail(left), names, n + 1)
  BY <1>1, <1>2, <1>5 DEF Remains
<1>. QED BY <1>6, <1>7, <1>8

\* How far a run is that has not ended.
LEMMA RunProgress ==
  ASSUME OutInv, NEW r \in Runs, command[r].pc \in {"writing", "created"}
  PROVE /\ command[r] = [x \in CommandFields |-> command[r][x]]
        /\ command[r].opts # {} /\ Opts(r).dir \in Directories
        /\ Directory(out[Opts(r).dir])
        /\ \E n \in 0..Len(initFiles(Opts(r))) :
             /\ Remains(command[r].left, initFiles(Opts(r)), n)
             /\ n < Len(initFiles(Opts(r)))
             /\ Written(out[Opts(r).dir], initFiles(Opts(r)), r, n)
             /\ command[r].pc = "created" =>
                  /\ initFiles(Opts(r))[n + 1] \in DOMAIN out[Opts(r).dir]
                  /\ out[Opts(r).dir][initFiles(Opts(r))[n + 1]].by = r
<1>1. /\ command[r] = [x \in CommandFields |-> command[r][x]]
      /\ command[r].opts # {}
      /\ Progress(command[r], out[Opts(r).dir], initFiles(Opts(r)), r)
  BY DEF OutInv
<1>2. Opts(r).dir \in Directories /\ Directory(out[Opts(r).dir])
  BY <1>1 DEF OutInv, Opts
<1>. QED BY <1>1, <1>2, ZenonT(30) DEF Progress

\* O_EXCL: a run that creates a file creates it in its own directory.
LEMMA CreateStep == ASSUME OutInv, NEW r \in Runs, CreateFile(r) PROVE OutInv'
<1>1. PICK names, f, d : names = initFiles(Opts(r)) /\ d = Opts(r).dir /\ f = out[d]
  BY Zenon
<1>2. command[r].pc = "writing"
  BY Zenon DEF CreateFile
<1>3. /\ command[r] = [x \in CommandFields |-> command[r][x]]
      /\ command[r].opts # {} /\ d \in Directories /\ Directory(f)
  BY <1>1, <1>2, RunProgress, Zenon
<1>4. PICK n \in 0..Len(names) : /\ Remains(command[r].left, names, n) /\ n < Len(names)
                                 /\ Written(f, names, r, n)
  BY <1>1, <1>2, RunProgress, ZenonT(30)
<1>5. names \in Seq(FileNames) /\ Len(names) > 0 /\ names[1] = "config.yaml"
  BY <1>1, FilesOrder
<1>6. PICK name : name = names[n + 1] /\ name = Head(command[r].left)
  BY <1>4, <1>5, NextFile, Zenon
<1>7. CASE name \in DOMAIN f
  <2>. DEFINE c == [command[r] EXCEPT !.pc = "failed"]
  <2>1. command' = [command EXCEPT ![r].pc = "failed"] /\ out' = out
    BY <1>1, <1>6, <1>7, Zenon DEF CreateFile
  <2>2. /\ c = [x \in CommandFields |-> c[x]] /\ c.pc = "failed" /\ c.opts = command[r].opts
        /\ command' = [command EXCEPT ![r] = c]
    BY <1>3, <2>1, CommandShape
  <2>. HIDE DEF c
  <2>3. Progress(c, f, names, r)
    BY <2>2 DEF Progress
  <2>4. out' = [out EXCEPT ![d] = f]
    BY <1>1, <1>3, <2>1 DEF OutInv
  <2>. QED BY <1>1, <1>3, <2>2, <2>3, <2>4, RunStep, ZenonT(30)
<1>8. CASE name \notin DOMAIN f
  <2>. DEFINE c == [command[r] EXCEPT !.pc = "created"]
              g == WithFile(f, name, [by |-> r, whole |-> FALSE])
  <2>1. /\ command' = [command EXCEPT ![r].pc = "created"]
        /\ out' = [out EXCEPT ![d] = g]
    BY <1>1, <1>6, <1>8, Zenon DEF CreateFile
  <2>2. /\ c = [x \in CommandFields |-> c[x]] /\ c.pc = "created"
        /\ c.opts = command[r].opts /\ c.left = command[r].left
        /\ command' = [command EXCEPT ![r] = c]
    BY <1>3, <2>1, CommandShape
  <2>3. name = "config.yaml" \/ ("config.yaml" \in DOMAIN f /\ f["config.yaml"].by = r)
    <3>1. CASE n = 0
      <4>1. n + 1 = 1
        BY <3>1
      <4>. QED BY <1>5, <1>6, <4>1, Zenon
    <3>2. CASE n # 0
      <4>1. 1 \in 1..n
        BY ONLY <3>2, n \in 0..Len(names)
      <4>. QED BY ONLY <1>4, <1>5, <4>1 DEF Written
    <3>. QED BY <3>1, <3>2
  <2>4. /\ Directory(g) /\ name \in DOMAIN g /\ g[name].by = r
        /\ \A x \in DOMAIN f : x \in DOMAIN g /\ g[x] = f[x]
    BY <1>3, <1>8, <2>3, CreatedFile
  <2>. HIDE DEF c, g
  <2>5. Written(g, names, r, n)
    BY <1>4, <2>4, Zenon DEF Written
  <2>6. Progress(c, g, names, r)
    BY <1>4, <1>6, <2>2, <2>4, <2>5, ZenonT(30) DEF Progress
  <2>. QED BY <1>1, <1>3, <2>1, <2>2, <2>4, <2>6, RunStep, ZenonT(30)
<1>. QED BY <1>7, <1>8

\* A run that writes a file has created it.
LEMMA WriteStep == ASSUME OutInv, NEW r \in Runs, WriteFile(r) PROVE OutInv'
<1>1. PICK names, f, d : names = initFiles(Opts(r)) /\ d = Opts(r).dir /\ f = out[d]
  BY Zenon
<1>2. command[r].pc = "created"
  BY Zenon DEF WriteFile
<1>3. /\ command[r] = [x \in CommandFields |-> command[r][x]]
      /\ command[r].opts # {} /\ d \in Directories /\ Directory(f)
  BY <1>1, <1>2, RunProgress, Zenon
<1>4. PICK n \in 0..Len(names) :
        /\ Remains(command[r].left, names, n) /\ n < Len(names)
        /\ Written(f, names, r, n)
        /\ names[n + 1] \in DOMAIN f /\ f[names[n + 1]].by = r
  BY <1>1, <1>2, RunProgress, ZenonT(30)
<1>5. names \in Seq(FileNames)
  BY <1>1, FilesOrder
<1>6. PICK name : name = names[n + 1]
  OBVIOUS
<1>7. PICK left : left = Tail(command[r].left)
  BY Zenon
<1>8. /\ name = Head(command[r].left) /\ Remains(left, names, n + 1)
      /\ left = << >> <=> n + 1 = Len(names)
  BY <1>4, <1>5, <1>6, <1>7, NextFile, ZenonT(30)
<1>9. PICK pc : pc = IF left = << >> THEN "done" ELSE "writing"
  OBVIOUS
<1>. DEFINE c == [command[r] EXCEPT !.left = left, !.pc = pc]
            g == [f EXCEPT ![name] = [by |-> r, whole |-> TRUE]]
<1>10. command' = [command EXCEPT ![r] = c]
  BY <1>7, <1>9, Zenon DEF WriteFile
<1>11. out' = [out EXCEPT ![d] = g]
  BY <1>1, <1>8, Zenon DEF WriteFile
<1>12. /\ c = [x \in CommandFields |-> c[x]] /\ c.pc = pc
       /\ c.opts = command[r].opts /\ c.left = left
  BY <1>3, ZenonT(30) DEF CommandFields
<1>13. /\ Directory(g) /\ DOMAIN g = DOMAIN f /\ g[name] = [by |-> r, whole |-> TRUE]
       /\ \A x \in DOMAIN f : x # name => g[x] = f[x]
  BY ONLY <1>3, <1>4, <1>6, WrittenFile, r \in Runs
<1>. HIDE DEF c, g
<1>14. Written(g, names, r, n + 1)
  <2>. SUFFICES ASSUME NEW i \in 1..(n + 1)
                PROVE names[i] \in DOMAIN g /\ g[names[i]] = [by |-> r, whole |-> TRUE]
    BY ZenonT(30) DEF Written
  <2>1. CASE names[i] = name
    BY <1>4, <1>6, <1>13, <2>1
  <2>2. CASE names[i] # name
    <3>1. i # n + 1
      BY <1>6, <2>2
    <3>2. i \in 1..n
      BY <1>4, <3>1
    <3>. QED BY <1>4, <1>13, <2>2, <3>2, ZenonT(30) DEF Written
  <2>. QED BY <2>1, <2>2
<1>15. Progress(c, g, names, r)
  <2>1. CASE left = << >>
    BY ONLY <1>8, <1>9, <1>12, <1>14, <2>1 DEF Progress
  <2>2. CASE left # << >>
    <3>1. n + 1 \in 0..Len(names) /\ n + 1 < Len(names)
      BY ONLY <1>4, <1>5, <1>8, <2>2, n \in 0..Len(names)
    <3>. QED BY ONLY <1>8, <1>9, <1>12, <1>14, <2>2, <3>1 DEF Progress
  <2>. QED BY <2>1, <2>2
<1>16. ASSUME NEW x \in DOMAIN f
       PROVE /\ x \in DOMAIN g /\ g[x].by = f[x].by
             /\ f[x].whole = TRUE => g[x] = f[x]
  <2>1. f[x] = [by |-> f[x].by, whole |-> f[x].whole]
    BY <1>3 DEF Directory
  <2>2. CASE x = name
    <3>1. f[x].by = r /\ g[x] = [by |-> r, whole |-> TRUE] /\ x \in DOMAIN g
      BY <1>4, <1>6, <1>13, <2>2
    <3>2. g[x].by = r
      BY <3>1
    <3>. QED BY <2>1, <3>1, <3>2, ZenonT(30)
  <2>3. CASE x # name
    BY <1>13, <2>3
  <2>. QED BY <2>2, <2>3, ZenonT(30)
<1>. QED BY <1>1, <1>3, <1>10, <1>11, <1>12, <1>13, <1>15, <1>16, RunStep, ZenonT(30)

\* The scripts and the processes leave the directories alone.
LEMMA OutStep == OutInv /\ [HostNext]_<<vars, hostVars>> => OutInv'
<1>. SUFFICES ASSUME OutInv, [HostNext]_<<vars, hostVars>> PROVE OutInv'
  OBVIOUS
<1>1. UNCHANGED <<command, out>> => OutInv'
  BY DEF OutInv, Opts
<1>2. ASSUME NEW r \in Runs,
             \/ RunSetup(r) \/ SetupCommand(r) \/ Prepare(r) \/ RunInstall(r) \/ InstallNew(r)
             \/ ReplaceConfig(r) \/ Check(r) \/ StartPhase(r)
      PROVE UNCHANGED <<command, out>>
  BY <1>2, Zenon DEF RunSetup, SetupCommand, Prepare, RunInstall, InstallNew, ReplaceConfig,
                     Check, StartPhase
<1>3. HostTick \/ Serve \/ UNCHANGED <<vars, hostVars>> => UNCHANGED <<command, out>>
  BY DEF HostTick, Serve, hostVars
<1>. QED BY <1>1, <1>2, <1>3, BeginStep, CreateStep, WriteStep, ZenonT(30) DEF HostNext

\* Runs of init that race for a directory never mix their files, for any
\* number of runs, and a run that has succeeded has all of its files there
\* (ensureEmptyDir, O_EXCL in writeInitFiles).
THEOREM DirectoriesUnmixed == HostSpec => []OneInstallation
<1>1. OutInv => OneInstallation
  <2>. SUFFICES ASSUME OutInv PROVE OneInstallation
    OBVIOUS
  <2>1. ASSUME NEW d \in DOMAIN out, NEW f \in DOMAIN out[d], NEW g \in DOMAIN out[d]
        PROVE out[d][f].by = out[d][g].by
    <3>1. Directory(out[d])
      BY DEF OutInv
    <3>. QED BY <3>1 DEF Directory
  <2>2. ASSUME NEW r \in Runs, command[r].pc = "done", NEW i \in DOMAIN initFiles(Opts(r))
        PROVE /\ initFiles(Opts(r))[i] \in DOMAIN out[Opts(r).dir]
              /\ out[Opts(r).dir][initFiles(Opts(r))[i]] = [by |-> r, whole |-> TRUE]
    <3>1. Written(out[Opts(r).dir], initFiles(Opts(r)), r, Len(initFiles(Opts(r))))
      BY <2>2 DEF OutInv, Progress
    <3>2. i \in 1..Len(initFiles(Opts(r)))
      BY <2>2, FilesOrder
    <3>. QED BY <3>1, <3>2, ZenonT(30) DEF Written
  <2>. QED BY <2>1, <2>2, Zenon DEF OneInstallation
<1>. QED BY <1>1, OutInit, OutStep, PTL DEF HostSpec

-----------------------------------------------------------------------------
\* A duration that init writes loads back to itself, whatever its value: the
\* unit that formatDuration chooses is exact (RenderProviderConfig, Load).
THEOREM DurationsLoadBack == \A value \in Nat : ParseDuration(formatDuration(value)) = value
<1>. SUFFICES ASSUME NEW value \in Nat PROVE ParseDuration(formatDuration(value)) = value
  OBVIOUS
<1>0. /\ DOMAIN Units = {"h", "m", "s"}
      /\ Units["h"] = 4 /\ Units["m"] = 2 /\ Units["s"] = 1
  BY DEF Units
<1>1. CASE value = 0
  BY <1>0, <1>1 DEF formatDuration, ParseDuration
<1>2. CASE value # 0
  <2>. DEFINE exact == {u \in DOMAIN Units : value % Units[u] = 0}
              largest == {u \in exact : \A v \in exact : Units[v] <= Units[u]}
  <2>1. largest # {}
    <3>1. "s" \in exact
      BY <1>0
    <3>2. CASE "h" \in exact
      <4>1. "h" \in largest
        BY <1>0, <3>2
      <4>. QED BY <4>1
    <3>3. CASE "h" \notin exact /\ "m" \in exact
      <4>1. "m" \in largest
        BY <1>0, <3>3
      <4>. QED BY <4>1
    <3>4. CASE "h" \notin exact /\ "m" \notin exact
      <4>1. "s" \in largest
        BY <1>0, <3>1, <3>4
      <4>. QED BY <4>1
    <3>. QED BY <3>2, <3>3, <3>4
  <2>2. PICK unit : unit = CHOOSE u \in exact : \A v \in exact : Units[v] <= Units[u]
    OBVIOUS
  <2>3. unit \in exact
    BY <2>1, <2>2
  <2>4. formatDuration(value) = <<value \div Units[unit], unit>>
    BY <1>2, <2>2, Zenon DEF formatDuration
  <2>5. ParseDuration(formatDuration(value)) = (value \div Units[unit]) * Units[unit]
    BY <2>4 DEF ParseDuration
  <2>6. unit \in {"h", "m", "s"} /\ value % Units[unit] = 0
    BY <1>0, <2>3
  <2>7. (value \div Units[unit]) * Units[unit] = value
    <3>1. CASE unit = "h"
      <4>1. value % 4 = 0 => (value \div 4) * 4 = value
        OBVIOUS
      <4>. QED BY <1>0, <2>6, <3>1, <4>1
    <3>2. CASE unit = "m"
      <4>1. value % 2 = 0 => (value \div 2) * 2 = value
        OBVIOUS
      <4>. QED BY <1>0, <2>6, <3>2, <4>1
    <3>3. CASE unit = "s"
      <4>1. (value \div 1) * 1 = value
        OBVIOUS
      <4>. QED BY <1>0, <2>6, <3>3, <4>1
    <3>. QED BY <2>6, <3>1, <3>2, <3>3
  <2>. QED BY <2>5, <2>7
<1>. QED BY <1>1, <1>2

=============================================================================
