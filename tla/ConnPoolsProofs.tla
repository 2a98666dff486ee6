--------------------------- MODULE ConnPoolsProofs ---------------------------
(***************************************************************************)
(* Safety of the connection pools for every set of sources and handlers,   *)
(* every assignment of kinds and every number of pools.                    *)
(***************************************************************************)
EXTENDS ConnPools, FiniteSetTheorems, TLAPS

-----------------------------------------------------------------------------
(* The inductive invariant, conjunct by conjunct.                          *)

\* Pools above "opened" do not exist yet; nobody refers to one.
Numbering ==
    /\ \A q \in PoolIds : q > opened => status[q] = "unopened" /\ srcOf[q] = NoSource
    /\ \A s \in Sources : pools[s] <= opened
    /\ \A p \in Procs : handle[p] <= opened

\* A goroutine that is not idle works on a source, and what it holds was
\* opened for that source.
Targets ==
    \A p \in Procs :
        /\ pc[p] # "idle" => target[p] \in Sources
        /\ handle[p] # NoPool => srcOf[handle[p]] = target[p]
        /\ Busy(p) => handle[p] # NoPool
        /\ pc[p] = "idle" => handle[p] = NoPool

\* A pool that is being opened is open, known to its opener alone, and in no map.
Private ==
    \A p \in Procs : pc[p] \in {"ping", "reping", "store"} =>
        /\ handle[p] # NoPool
        /\ status[handle[p]] = "open"
        /\ \A s \in Sources : pools[s] # handle[p]
        /\ \A r \in Procs \ {p} : handle[r] # handle[p]

MapKeyed ==
    \A s \in Sources : pools[s] # NoPool => srcOf[pools[s]] = s

\* A pool in the middle of its Close is in the map that is being emptied.
ClosingOwned ==
    \A q \in PoolIds : status[q] = "closing" =>
        /\ srcOf[q] \in Sources /\ pools[srcOf[q]] = q
        /\ closing = KindOf[srcOf[q]] /\ Driver[closing].close # "none"

\* A Connect made for Client(name) left an entry for the second lookup.
ReclientFinds ==
    \A p \in Procs : pc[p] = "reclient" /\ BeforeClose(Kind(p)) =>
        pools[target[p]] # NoPool

\* CloseAll starts after the drain, and a drain that did not expire left no
\* handler behind.
Phases ==
    /\ phase \in {"serving", "draining"} => closing = NoKind /\ closed = {}
    /\ phase \in {"closing", "exited"} /\ ~expired => \A h \in Handlers : pc[h] = "idle"

IInv ==
    /\ TypeOK /\ Numbering /\ Targets /\ Private /\ MapKeyed
    /\ ClosingOwned /\ ReclientFinds /\ Phases
    /\ MapServesOpenPools /\ HandleUsableUntilCloseAll
    /\ NilClientOnlyAfterCloseAll /\ NoSilentLeak

-----------------------------------------------------------------------------
USE KindAssumption, ProcAssumption, SourceAssumption, BoundAssumption

LEMMA IInvInit == Init => IInv
<1> SUFFICES ASSUME Init PROVE IInv
  OBVIOUS
<1> USE DEF Init, PoolIds, NoPool
<1>1. TypeOK
  <2>1. byClient \in [Procs -> BOOLEAN] /\ expired \in BOOLEAN
    BY Zenon
  <2> QED
    BY <2>1 DEF TypeOK, PcStates
<1>2. Numbering /\ Targets /\ Private /\ MapKeyed /\ ClosingOwned
  BY DEF Numbering, Targets, Private, MapKeyed, ClosingOwned, Busy
<1>3. ReclientFinds /\ Phases /\ MapServesOpenPools
  BY DEF ReclientFinds, Phases, MapServesOpenPools
<1>4. HandleUsableUntilCloseAll /\ NilClientOnlyAfterCloseAll /\ NoSilentLeak
  BY DEF HandleUsableUntilCloseAll, NilClientOnlyAfterCloseAll, NoSilentLeak
<1> QED
  BY <1>1, <1>2, <1>3, <1>4 DEF IInv

-----------------------------------------------------------------------------
(* Most steps of a goroutine p move only p: to label l, target t, handle h. *)
(* LocalOK says which of these moves are harmless.                         *)

Opening == {"ping", "reping", "store"}

LocalOK(p, l, t, h) ==
    /\ l \in PcStates
    /\ t \in Sources \cup {NoSource}
    /\ h \in PoolIds \cup {NoPool} /\ h <= opened
    /\ l # "idle" => t \in Sources
    /\ h # NoPool => srcOf[h] = t
    /\ l \in {"querying", "browsing"} => h # NoPool
    /\ l = "idle" => h = NoPool
    /\ l \in Opening <=> pc[p] \in Opening
    /\ l \in Opening => h = handle[p]
    /\ \A r \in Procs \ {p} : pc[r] \in Opening => handle[r] # h
    /\ l = "reclient" /\ BeforeClose(KindOf[t]) => pools[t] # NoPool
    /\ l \in {"ready", "querying", "browsing"} /\ BeforeClose(KindOf[t]) =>
         h # NoPool /\ status[h] = "open"
    /\ p \in Handlers /\ l # "idle" => pc[p] # "idle" \/ phase = "serving"

LEMMA LocalStep ==
  ASSUME IInv, NEW p \in Procs, NEW l, NEW t, NEW h, NEW b \in BOOLEAN,
         LocalOK(p, l, t, h),
         pc' = [pc EXCEPT ![p] = l],
         target' = [target EXCEPT ![p] = t],
         handle' = [handle EXCEPT ![p] = h],
         byClient' = [byClient EXCEPT ![p] = b],
         UNCHANGED <<poolVars, mainVars>>
  PROVE  IInv'
<1> USE DEF IInv, TypeOK, poolVars, mainVars
<1>0. /\ pc[p] \in PcStates /\ \A r \in Procs : pc'[r] = IF r = p THEN l ELSE pc[r]
      /\ \A r \in Procs : target'[r] = IF r = p THEN t ELSE target[r]
      /\ \A r \in Procs : handle'[r] = IF r = p THEN h ELSE handle[r]
  OBVIOUS
<1>1. TypeOK'
  BY DEF LocalOK
<1>2. Numbering' /\ Targets'
  BY <1>0 DEF LocalOK, Numbering, Targets, Busy
<1>3. Private'
  BY <1>0 DEF LocalOK, Private, Opening
<1>4. MapKeyed' /\ ClosingOwned' /\ MapServesOpenPools'
  BY DEF MapKeyed, ClosingOwned, MapServesOpenPools
<1>5. ReclientFinds'
  BY <1>0 DEF LocalOK, ReclientFinds, BeforeClose, Kind
<1>6. Phases'
  BY <1>0 DEF LocalOK, Phases
<1>7. HandleUsableUntilCloseAll' /\ NilClientOnlyAfterCloseAll'
  BY <1>0 DEF LocalOK, HandleUsableUntilCloseAll, NilClientOnlyAfterCloseAll,
              BeforeClose, Kind
<1>8. NoSilentLeak'
  <2> SUFFICES ASSUME NEW q \in PoolIds, Closable(q), status[q] = "open",
                      ~Mapped(q), q \notin displaced
               PROVE  InFlight(q)'
    BY DEF NoSilentLeak, Closable, Mapped
  <2>1. PICK r \in Procs : pc[r] \in Opening /\ handle[r] = q
    BY DEF NoSilentLeak, InFlight, Opening
  <2> QED
    BY <1>0, <2>1 DEF LocalOK, InFlight, Opening
<1> QED
  BY <1>1, <1>2, <1>3, <1>4, <1>5, <1>6, <1>7, <1>8

\* Return is the move to an idle goroutine, allowed to anyone who opens nothing.
LEMMA ReturnStep ==
  ASSUME IInv, NEW p \in Procs, pc[p] \notin Opening, Return(p),
         UNCHANGED <<poolVars, mainVars>>
  PROVE  IInv'
<1>1. LocalOK(p, "idle", NoSource, NoPool)
  BY DEF LocalOK, IInv, TypeOK, PcStates, Opening, Private, NoPool
<1> QED
  BY <1>1, LocalStep DEF Return, Goto

\* A lookup that hits: the pool in the map is usable and opened by nobody.
LEMMA HitOK ==
  ASSUME IInv, NEW p \in Procs, pc[p] \notin Opening, pc[p] # "idle",
         pools[target[p]] # NoPool, MutexFree(Kind(p)),
         NEW l \in {"ready", "reclient"}
  PROVE  LocalOK(p, l, target[p], pools[target[p]])
  BY DEF LocalOK, IInv, TypeOK, PcStates, Opening, Private, Targets, Numbering,
         MapKeyed, MapServesOpenPools, MutexFree, Kind

LEMMA CallStep ==
  ASSUME IInv, NEW p \in Procs, NEW s \in Sources,
         \/ p \in Handlers /\ (CallConnect(p, s) \/ CallClient(p, s))
         \/ p = Refresher /\ IndexSource(s)
  PROVE  IInv'
<1> USE DEF At, Running, Goto, CallConnect, CallClient, IndexSource
<1>1. PICK l \in {"connect", "client"}, b \in BOOLEAN :
        /\ pc' = [pc EXCEPT ![p] = l]
        /\ byClient' = [byClient EXCEPT ![p] = b]
  <2>1. byClient[p] \in BOOLEAN /\ byClient = [byClient EXCEPT ![p] = byClient[p]]
    BY DEF IInv, TypeOK
  <2> QED
    BY <2>1
<1>2. LocalOK(p, l, s, NoPool)
  BY DEF LocalOK, IInv, TypeOK, PcStates, Opening, Private, NoPool
<1>3. handle' = [handle EXCEPT ![p] = NoPool]
  BY DEF IInv, TypeOK, Targets
<1> QED
  BY <1>1, <1>2, <1>3, LocalStep DEF poolVars, mainVars

LEMMA LookupStep ==
  ASSUME IInv, NEW p \in Procs, ClientLookup(p) \/ Lookup(p) \/ Reclient(p)
  PROVE  IInv'
<1> USE DEF At, Running, Goto, ClientLookup, Lookup, Reclient
<1>1. /\ pc[p] \notin Opening /\ pc[p] # "idle"
      /\ MutexFree(Kind(p))
      /\ byClient[p] \in BOOLEAN
      /\ byClient' = [byClient EXCEPT ![p] = byClient[p]] \/ Return(p)
  BY DEF Opening, IInv, TypeOK
<1>2. CASE pools[target[p]] # NoPool
  <2>1. PICK l \in {"ready", "reclient"} : pc' = [pc EXCEPT ![p] = l]
    BY <1>2
  <2>2. /\ handle' = [handle EXCEPT ![p] = pools[target[p]]]
        /\ target' = [target EXCEPT ![p] = target[p]]
        /\ byClient' = [byClient EXCEPT ![p] = byClient[p]]
        /\ byClient[p] \in BOOLEAN
        /\ UNCHANGED <<poolVars, mainVars>>
    BY <1>2 DEF IInv, TypeOK
  <2>3. LocalOK(p, l, target[p], pools[target[p]])
    BY <1>1, <1>2, HitOK
  <2> QED
    BY <2>1, <2>2, <2>3, LocalStep
<1>3. CASE pools[target[p]] = NoPool /\ pc[p] # "reclient"
  <2>1. PICK l \in {"connect", "open"} : pc' = [pc EXCEPT ![p] = l]
    BY <1>3
  <2>2. /\ handle' = [handle EXCEPT ![p] = handle[p]]
        /\ target' = [target EXCEPT ![p] = target[p]]
        /\ byClient' = [byClient EXCEPT ![p] = byClient[p]]
        /\ byClient[p] \in BOOLEAN
        /\ UNCHANGED <<poolVars, mainVars>>
    BY <1>3 DEF IInv, TypeOK
  <2>3. LocalOK(p, l, target[p], handle[p])
    BY <1>1 DEF LocalOK, IInv, TypeOK, PcStates, Opening, Private, Targets, Numbering
  <2> QED
    BY <2>1, <2>2, <2>3, LocalStep
<1>4. CASE pools[target[p]] = NoPool /\ pc[p] = "reclient" /\ Kind(p) # "redis"
  BY <1>1, <1>4, ReturnStep
<1>5. CASE pools[target[p]] = NoPool /\ pc[p] = "reclient" /\ Kind(p) = "redis"
  <2>1. /\ pc' = [pc EXCEPT ![p] = "ready"]
        /\ handle' = [handle EXCEPT ![p] = NoPool]
        /\ target' = [target EXCEPT ![p] = target[p]]
        /\ byClient' = [byClient EXCEPT ![p] = byClient[p]]
        /\ byClient[p] \in BOOLEAN
        /\ UNCHANGED <<poolVars, mainVars>>
    BY <1>5 DEF IInv, TypeOK
  <2>2. ~BeforeClose(Kind(p))
    BY <1>5 DEF IInv, ReclientFinds
  <2>3. LocalOK(p, "ready", target[p], NoPool)
    BY <1>1, <2>2 DEF LocalOK, IInv, TypeOK, PcStates, Opening, Private, Targets,
                      NoPool, Kind
  <2> QED
    BY <2>1, <2>3, LocalStep
<1> QED
  BY <1>2, <1>3, <1>4, <1>5

LEMMA OperationStep ==
  ASSUME IInv, NEW p \in Procs, PingOk(p) \/ Begin(p) \/ Finish(p)
  PROVE  IInv'
<1> USE DEF At, Running, Goto, PingOk, Begin, Finish, Busy
<1>1. PICK l \in {"store", "querying", "browsing", "ready"} :
        /\ pc' = [pc EXCEPT ![p] = l]
        /\ l = "store" => pc[p] \in {"ping", "reping"}
        /\ l \in {"querying", "browsing"} => At(p, "ready") /\ handle[p] # NoPool
                                             /\ status[handle[p]] = "open"
        /\ l = "ready" => Busy(p)
  BY DEF IInv, TypeOK
<1>2. /\ handle' = [handle EXCEPT ![p] = handle[p]]
      /\ target' = [target EXCEPT ![p] = target[p]]
      /\ byClient' = [byClient EXCEPT ![p] = byClient[p]]
      /\ byClient[p] \in BOOLEAN
      /\ UNCHANGED <<poolVars, mainVars>>
  BY DEF IInv, TypeOK
<1>3. LocalOK(p, l, target[p], handle[p])
  BY <1>1 DEF LocalOK, IInv, TypeOK, PcStates, Opening, Private, Targets, Numbering,
              HandleUsableUntilCloseAll, Kind
<1> QED
  BY <1>1, <1>2, <1>3, LocalStep

LEMMA LeaveStep ==
  ASSUME IInv, NEW p \in Procs, OpenFails(p) \/ Refused(p) \/ Leave(p)
  PROVE  IInv'
  BY ReturnStep DEF OpenFails, Refused, Leave, At, Opening

-----------------------------------------------------------------------------
(* The steps that open, store and close pools.                             *)

LEMMA OpenStep ==
  ASSUME IInv, NEW p \in Procs, Open(p)
  PROVE  IInv'
<1> USE DEF IInv, Open, At, Running, Goto, PoolIds, NoPool
<1> DEFINE n == opened + 1
<1>0. /\ n \in PoolIds /\ pc[p] \notin Opening /\ target[p] \in Sources
      /\ \E l \in Opening : pc' = [pc EXCEPT ![p] = l]
      /\ \A r \in Procs : r # p => pc'[r] = pc[r] /\ handle'[r] = handle[r]
      /\ handle'[p] = n /\ pc'[p] \in Opening
      /\ \A q \in PoolIds : q # n => status'[q] = status[q] /\ srcOf'[q] = srcOf[q]
      /\ status'[n] = "open" /\ srcOf'[n] = target[p]
      /\ \A s \in Sources : pools[s] # n
      /\ \A r \in Procs : handle[r] # n
  BY BoundAssumption DEF TypeOK, Opening, Numbering, Targets
<1>1. TypeOK'
  BY <1>0 DEF TypeOK, PcStates, Opening, mainVars
<1>2. Numbering' /\ Targets'
  BY <1>0 DEF TypeOK, Numbering, Targets, Opening, Busy
<1>3. Private'
  BY <1>0 DEF TypeOK, Private, Opening
<1>4. MapKeyed' /\ ClosingOwned' /\ MapServesOpenPools'
  BY <1>0 DEF TypeOK, MapKeyed, ClosingOwned, MapServesOpenPools, mainVars
<1>5. ReclientFinds' /\ Phases'
  BY <1>0 DEF TypeOK, ReclientFinds, Phases, BeforeClose, Kind, mainVars, Opening
<1>6. HandleUsableUntilCloseAll' /\ NilClientOnlyAfterCloseAll'
  BY <1>0 DEF TypeOK, HandleUsableUntilCloseAll, NilClientOnlyAfterCloseAll,
              BeforeClose, Kind, mainVars, Opening
<1>7. NoSilentLeak'
  <2> SUFFICES ASSUME NEW q \in PoolIds, Closable(q)', status'[q] = "open"
               PROVE  (Mapped(q) \/ InFlight(q) \/ q \in displaced)'
    BY DEF NoSilentLeak
  <2>1. NoSilentLeak /\ UNCHANGED <<pools, displaced>>
    OBVIOUS
  <2> HIDE DEF IInv, Open, At, Goto
  <2>2. CASE q = n
    BY <1>0, <2>2 DEF InFlight, Opening
  <2>3. CASE q # n
    <3>1. Mapped(q) \/ InFlight(q) \/ q \in displaced
      BY <1>0, <2>1, <2>3 DEF NoSilentLeak, Closable
    <3>2. InFlight(q) => InFlight(q)'
      BY <1>0 DEF InFlight, Opening
    <3> QED
      BY <2>1, <3>1, <3>2 DEF Mapped
  <2> QED
    BY <2>2, <2>3
<1> QED
  BY <1>1, <1>2, <1>3, <1>4, <1>5, <1>6, <1>7

LEMMA PingFailsStep ==
  ASSUME IInv, NEW p \in Procs, PingFails(p)
  PROVE  IInv'
<1> USE DEF IInv, PingFails, At, Running, Goto, NoPool
<1>0. /\ pc[p] \in Opening /\ target[p] \in Sources
      /\ handle[p] \in PoolIds /\ srcOf[handle[p]] = target[p]
      /\ handle'[p] = 0 /\ pc'[p] \in {"idle", "reopen"}
      /\ pc'[p] = "idle" => target'[p] = NoSource
      /\ pc'[p] = "reopen" => target'[p] = target[p]
      /\ \A r \in Procs : r # p => /\ pc'[r] = pc[r] /\ handle'[r] = handle[r]
                                   /\ target'[r] = target[r]
                                   /\ byClient'[r] = byClient[r]
                                   /\ handle[r] # handle[p]
      /\ \A q \in PoolIds : q # handle[p] => status'[q] = status[q]
      /\ \A s \in Sources : pools[s] # handle[p]
      /\ status'[handle[p]] # "open" \/ ~Closable(handle[p])
      /\ status'[handle[p]] \in {"open", "closed"}
  BY DEF TypeOK, Opening, Targets, Private, Return, Closable, Kind
<1>1. TypeOK'
  <2>1. /\ pc' \in [Procs -> PcStates] /\ byClient' \in [Procs -> BOOLEAN]
        /\ target' \in [Procs -> Sources \cup {NoSource}]
        /\ handle' \in [Procs -> PoolIds \cup {NoPool}]
    BY DEF TypeOK, PcStates, Return
  <2>2. status' \in [PoolIds -> {"unopened", "open", "closing", "closed"}]
    BY DEF TypeOK
  <2> QED
    BY <2>1, <2>2 DEF TypeOK, mainVars
<1>2. Numbering' /\ Targets'
  <2>1. \A q \in PoolIds : q > opened => q # handle[p]
    BY <1>0 DEF Numbering, TypeOK, PoolIds
  <2> QED
    BY <1>0, <2>1 DEF TypeOK, Numbering, Targets, Busy
<1>3. Private'
  BY <1>0 DEF TypeOK, Private
<1>4. MapKeyed' /\ ClosingOwned' /\ MapServesOpenPools'
  BY <1>0 DEF TypeOK, MapKeyed, ClosingOwned, MapServesOpenPools, mainVars
<1>5. ReclientFinds'
  BY <1>0 DEF TypeOK, Targets, ReclientFinds, BeforeClose, Kind, mainVars
<1>6. Phases'
  BY <1>0 DEF TypeOK, Phases, mainVars, Opening, Procs
<1>7. HandleUsableUntilCloseAll'
  BY <1>0 DEF TypeOK, HandleUsableUntilCloseAll, BeforeClose, Kind, mainVars
<1>8. NilClientOnlyAfterCloseAll'
  BY <1>0 DEF TypeOK, NilClientOnlyAfterCloseAll, BeforeClose, Kind, mainVars
<1>9. NoSilentLeak'
  BY <1>0 DEF TypeOK, NoSilentLeak, Closable, Mapped, InFlight, Opening
<1> QED
  BY <1>1, <1>2, <1>3, <1>4, <1>5, <1>6, <1>7, <1>8, <1>9

LEMMA StoreStep ==
  ASSUME IInv, NEW p \in Procs, Store(p)
  PROVE  IInv'
<1> USE DEF IInv, Store, At, Running, Goto, NoPool
<1>0. /\ pc[p] \in Opening /\ target[p] \in Sources
      /\ handle[p] \in PoolIds /\ handle[p] # 0 /\ srcOf[handle[p]] = target[p]
      /\ status[handle[p]] = "open"
      /\ pc'[p] \in {"ready", "reclient"}
      /\ \A r \in Procs : r # p => pc'[r] = pc[r] /\ handle[r] # handle[p]
      /\ \A s \in Sources : pools'[s] = IF s = target[p] THEN handle[p] ELSE pools[s]
  BY DEF TypeOK, Opening, Targets, Private
<1>1. TypeOK'
  BY <1>0 DEF TypeOK, PcStates, mainVars
<1>2. Numbering' /\ Targets'
  BY <1>0 DEF TypeOK, Numbering, Targets, Busy
<1>3. Private'
  BY <1>0 DEF TypeOK, Private
<1>4. MapKeyed' /\ ClosingOwned' /\ MapServesOpenPools'
  <2>1. closing # KindOf[target[p]]
    BY DEF MutexFree, Kind
  <2> QED
    BY <1>0, <2>1 DEF TypeOK, MapKeyed, ClosingOwned, MapServesOpenPools, mainVars
<1>5. ReclientFinds'
  BY <1>0 DEF TypeOK, Targets, ReclientFinds, BeforeClose, Kind, mainVars
<1>6. Phases'
  BY <1>0 DEF TypeOK, Phases, mainVars, Opening
<1>7. HandleUsableUntilCloseAll'
  BY <1>0 DEF TypeOK, HandleUsableUntilCloseAll, BeforeClose, Kind, mainVars
<1>8. NilClientOnlyAfterCloseAll'
  BY <1>0 DEF TypeOK, NilClientOnlyAfterCloseAll, BeforeClose, Kind, mainVars
<1>9. NoSilentLeak'
  <2> SUFFICES ASSUME NEW q \in PoolIds, Closable(q), status[q] = "open",
                      q # handle[p], q \notin displaced'
               PROVE  Mapped(q)' \/ InFlight(q)'
    BY <1>0 DEF NoSilentLeak, Closable, Mapped
  <2>1. CASE Mapped(q)
    BY <1>0, <2>1 DEF Mapped, TypeOK, PoolIds
  <2>2. CASE InFlight(q)
    BY <1>0, <2>2 DEF InFlight
  <2> QED
    BY <2>1, <2>2 DEF NoSilentLeak
<1> QED
  BY <1>1, <1>2, <1>3, <1>4, <1>5, <1>6, <1>7, <1>8, <1>9

-----------------------------------------------------------------------------
(* The steps of main.                                                      *)

\* A pool changes its status only by CloseAll's hand: it belongs to the kind
\* whose mutex main holds.
LEMMA CloseStep ==
  ASSUME IInv, NEW q \in PoolIds, ClosePool(q) \/ CloseReturns(q)
  PROVE  IInv'
<1> USE DEF IInv, ClosePool, CloseReturns, procVars, mainVars
<1>0. /\ srcOf[q] \in Sources /\ closing = KindOf[srcOf[q]]
      /\ status'[q] \in {"closing", "closed"}
      /\ status[q] \in {"open", "closing"}
      /\ \A r \in PoolIds : r # q => status'[r] = status[r]
      /\ pools[srcOf[q]] = q /\ Driver[closing].close # "none"
  <2>1. CASE ClosePool(q)
    <3>1. PICK s \in Sources : pools[s] = q /\ KindOf[s] = closing
      BY <2>1 DEF OwnedBy
    <3>2. srcOf[q] = s
      BY <3>1 DEF MapKeyed, NoPool, PoolIds
    <3>3. /\ status[q] = "open" /\ Driver[closing].close # "none"
          /\ status \in [PoolIds -> {"unopened", "open", "closing", "closed"}]
          /\ \E t \in {"closing", "closed"} : status' = [status EXCEPT ![q] = t]
      BY <2>1 DEF TypeOK
    <3> QED
      BY <3>1, <3>2, <3>3
  <2>2. CASE CloseReturns(q)
    <3>1. /\ status[q] = "closing"
          /\ status \in [PoolIds -> {"unopened", "open", "closing", "closed"}]
          /\ status' = [status EXCEPT ![q] = "closed"]
      BY <2>2 DEF TypeOK
    <3> QED
      BY <3>1 DEF ClosingOwned
  <2> QED
    BY <2>1, <2>2
<1>1. TypeOK'
  BY DEF TypeOK
<1>2. Numbering' /\ Targets'
  BY <1>0 DEF TypeOK, Numbering, Targets, Busy, SourceAssumption
<1>3. Private'
  BY <1>0 DEF TypeOK, Private
<1>4. MapKeyed' /\ ClosingOwned' /\ MapServesOpenPools'
  BY <1>0 DEF TypeOK, MapKeyed, ClosingOwned, MapServesOpenPools
<1>5. ReclientFinds' /\ Phases' /\ NilClientOnlyAfterCloseAll'
  BY DEF TypeOK, ReclientFinds, Phases, NilClientOnlyAfterCloseAll, BeforeClose, Kind
<1>6. HandleUsableUntilCloseAll'
  BY <1>0 DEF TypeOK, HandleUsableUntilCloseAll, BeforeClose, Kind
<1>7. NoSilentLeak'
  BY <1>0 DEF TypeOK, NoSilentLeak, Closable, Mapped, InFlight
<1> QED
  BY <1>1, <1>2, <1>3, <1>4, <1>5, <1>6, <1>7

\* The entries that CloseAll drops are closed pools, or clients without a Close.
LEMMA CloseAllReturnsStep ==
  ASSUME IInv, CloseAllReturns
  PROVE  IInv'
<1> USE DEF IInv, CloseAllReturns, procVars
<1>0. /\ closing \in Kinds /\ closing' = NoKind /\ NoKind \notin Kinds
      /\ phase' = phase /\ phase \in {"closing", "exited"}
      /\ closed' = closed \cup {closing}
      /\ \A s \in Sources : KindOf[s] \in Kinds
      /\ \A s \in Sources : pools'[s] = IF KindOf[s] = closing THEN NoPool ELSE pools[s]
      /\ \A k \in Kinds : BeforeClose(k)' => BeforeClose(k) /\ k # closing
      /\ \A p \in Procs : pc[p] # "idle" => Kind(p) \in Kinds
  BY DEF TypeOK, Phases, NoKind, Kinds, BeforeClose, Targets, Kind
<1>00. \A q \in PoolIds : OwnedBy(q, closing) =>
         status[q] = "closed" \/ Driver[closing].close = "none"
  OBVIOUS
<1>1. TypeOK'
  BY <1>0 DEF TypeOK
<1>2. Numbering' /\ Targets'
  BY <1>0 DEF TypeOK, Numbering, Targets, Busy, NoPool
<1>3. Private' /\ MapKeyed'
  BY <1>0 DEF TypeOK, Private, MapKeyed
<1>4. ClosingOwned' /\ MapServesOpenPools'
  <2>1. \A q \in PoolIds : status[q] # "closing"
    BY <1>00 DEF ClosingOwned, OwnedBy
  <2>2. ClosingOwned'
    BY <2>1 DEF ClosingOwned
  <2>3. MapServesOpenPools'
    BY <1>0 DEF TypeOK, MapServesOpenPools
  <2> QED
    BY <2>2, <2>3
<1>5. ReclientFinds'
  BY <1>0 DEF TypeOK, Targets, ReclientFinds, Kind
<1>6. Phases'
  BY <1>0 DEF TypeOK, Phases
<1>7. HandleUsableUntilCloseAll' /\ NilClientOnlyAfterCloseAll'
  BY <1>0 DEF TypeOK, HandleUsableUntilCloseAll, NilClientOnlyAfterCloseAll, Kind
<1>8. NoSilentLeak'
  <2> SUFFICES ASSUME NEW q \in PoolIds, Closable(q), status[q] = "open",
                      q \notin displaced
               PROVE  Mapped(q)' \/ InFlight(q)
    BY DEF NoSilentLeak, Closable, InFlight
  <2>1. ASSUME NEW s \in Sources, pools[s] = q PROVE pools'[s] = q
    <3>1. srcOf[q] = s
      BY <2>1 DEF MapKeyed, PoolIds, NoPool
    <3>2. CASE KindOf[s] = closing
      BY <1>00, <2>1, <3>1, <3>2 DEF OwnedBy, Closable
    <3> QED
      BY <1>0, <2>1, <3>2
  <2> QED
    BY <2>1 DEF NoSilentLeak, Mapped
<1> QED
  BY <1>1, <1>2, <1>3, <1>4, <1>5, <1>6, <1>7, <1>8

LEMMA PhaseStep ==
  ASSUME IInv, Signal \/ Drained \/ DrainExpires \/ CloseAllBegins \/ Exit
  PROVE  IInv'
<1> USE DEF IInv, Signal, Drained, DrainExpires, CloseAllBegins, Exit, poolVars, procVars
<1>1. TypeOK'
  <2>1. \A i \in 1 .. Len(KindOrder) : KindOrder[i] \in Kinds
    <3>1. Len(KindOrder) = 7
      BY DEF KindOrder
    <3> QED
      BY <3>1 DEF KindOrder, Kinds
  <2>2. closing' \in Kinds \cup {NoKind}
    BY <2>1 DEF TypeOK
  <2>3. expired' \in BOOLEAN /\ phase' \in {"serving", "draining", "closing", "exited"}
    BY DEF TypeOK
  <2> QED
    BY <2>2, <2>3 DEF TypeOK
<1>2. Numbering' /\ Targets' /\ Private' /\ MapKeyed' /\ NoSilentLeak'
  BY DEF Numbering, Targets, Private, MapKeyed, NoSilentLeak, Closable, Mapped, InFlight, Busy
<1>3. closing' = closing \/ closing = NoKind
  OBVIOUS
<1>4. closed' = closed /\ \A k \in Kinds : closing' # k => closing # k
  BY <1>3 DEF NoKind, Kinds
<1>5. ClosingOwned' /\ MapServesOpenPools'
  BY <1>4 DEF TypeOK, ClosingOwned, MapServesOpenPools
<1>6. ReclientFinds' /\ NilClientOnlyAfterCloseAll' /\ HandleUsableUntilCloseAll'
  BY <1>4 DEF TypeOK, ReclientFinds, NilClientOnlyAfterCloseAll,
              HandleUsableUntilCloseAll, BeforeClose, Kind, Targets
<1>7. Phases'
  BY DEF TypeOK, Phases
<1> QED
  BY <1>1, <1>2, <1>5, <1>6, <1>7

LEMMA IInvNext == IInv /\ [Next]_vars => IInv'
<1> SUFFICES ASSUME IInv, [Next]_vars PROVE IInv'
  OBVIOUS
<1>1. ASSUME NEW p \in Procs, Proc(p) PROVE IInv'
  BY <1>1, LookupStep, OperationStep, LeaveStep, OpenStep, PingFailsStep, StoreStep
     DEF Proc
<1>2. ASSUME NEW s \in Sources,
             (\E h \in Handlers : CallConnect(h, s) \/ CallClient(h, s)) \/ IndexSource(s)
      PROVE  IInv'
  BY <1>2, CallStep DEF Procs
<1>3. CASE Main \/ Signal
  BY <1>3, CloseStep, CloseAllReturnsStep, PhaseStep DEF Main
<1>4. CASE UNCHANGED vars
  BY <1>4 DEF vars, poolVars, procVars, mainVars, IInv, TypeOK, Numbering, Targets,
              Private, MapKeyed, ClosingOwned, ReclientFinds, Phases,
              MapServesOpenPools, HandleUsableUntilCloseAll,
              NilClientOnlyAfterCloseAll, NoSilentLeak, Closable, Mapped, InFlight,
              BeforeClose, Busy, Kind
<1> QED
  BY <1>1, <1>2, <1>3, <1>4 DEF Next, Exited

LEMMA IInvHolds == Spec => []IInv
  BY IInvInit, IInvNext, PTL DEF Spec

-----------------------------------------------------------------------------
(* How many pools a race can open.  Until an entry for the source is there, *)
(* every open pool is held by the goroutine that opens it.  From then on    *)
(* nobody else starts to open one, so the open pools and the goroutines     *)
(* that may still open one are together no more than the goroutines.        *)

OpenOf(s) == {q \in PoolIds : srcOf[q] = s /\ Closable(q) /\ status[q] = "open"}
Openers(s) == {p \in Procs : target[p] = s /\ pc[p] \in {"open", "reopen"}}
Holders(s) == {p \in Procs : target[p] = s /\ pc[p] \in Opening}

RaceOf(s) ==
    BeforeClose(KindOf[s]) =>
        IF pools[s] = NoPool
        THEN \A q \in OpenOf(s) : \E p \in Holders(s) : handle[p] = q
        ELSE Cardinality(OpenOf(s)) + Cardinality(Openers(s)) <= Cardinality(Procs)

Race == \A s \in Sources : RaceOf(s)

\* Sets of pools and sets of goroutines are finite.
LEMMA Finite ==
  /\ \A S \in SUBSET PoolIds : IsFiniteSet(S) /\ Cardinality(S) \in Nat
  /\ \A S \in SUBSET Procs : IsFiniteSet(S) /\ Cardinality(S) \in Nat
<1>1. IsFiniteSet(PoolIds)
  BY FS_Interval DEF PoolIds
<1>2. IsFiniteSet(Procs)
  BY HandlerAssumption, FS_AddElement DEF Procs
<1> QED
  BY <1>1, <1>2, FS_Subset, FS_CardinalityType

\* Two sets of which neither grows.
LEMMA Shrinking ==
  ASSUME NEW S, NEW T, IsFiniteSet(S), IsFiniteSet(T),
         NEW S1 \in SUBSET S, NEW T1 \in SUBSET T
  PROVE  Cardinality(S1) + Cardinality(T1) <= Cardinality(S) + Cardinality(T)
<1>1. Cardinality(S1) <= Cardinality(S) /\ Cardinality(T1) <= Cardinality(T)
  BY FS_Subset
<1>2. /\ Cardinality(S1) \in Nat /\ Cardinality(T1) \in Nat
      /\ Cardinality(S) \in Nat /\ Cardinality(T) \in Nat
  BY FS_Subset, FS_CardinalityType
<1> QED
  BY <1>1, <1>2

\* One set gains an element, the other loses one.
LEMMA Swapping ==
  ASSUME NEW S, NEW T, IsFiniteSet(S), IsFiniteSet(T), NEW x, NEW y \in T,
         NEW S1 \in SUBSET (S \cup {x}), NEW T1 \in SUBSET (T \ {y})
  PROVE  Cardinality(S1) + Cardinality(T1) <= Cardinality(S) + Cardinality(T)
<1>0. Cardinality(S) \in Nat /\ Cardinality(T) \in Nat
  BY FS_CardinalityType
<1>1. IsFiniteSet(S \cup {x}) /\ Cardinality(S \cup {x}) <= Cardinality(S) + 1
  <2>1. /\ IsFiniteSet(S \cup {x})
        /\ Cardinality(S \cup {x}) = IF x \in S THEN Cardinality(S) ELSE Cardinality(S) + 1
    BY FS_AddElement, Zenon
  <2> QED
    BY <1>0, <2>1
<1>2. IsFiniteSet(T \ {y}) /\ Cardinality(T \ {y}) = Cardinality(T) - 1
  <2>1. /\ IsFiniteSet(T \ {y})
        /\ Cardinality(T \ {y}) = IF y \in T THEN Cardinality(T) - 1 ELSE Cardinality(T)
    BY FS_RemoveElement, Zenon
  <2> QED
    BY <2>1
<1>3. Cardinality(S1) + Cardinality(T1) <= Cardinality(S \cup {x}) + Cardinality(T \ {y})
  BY <1>1, <1>2, Shrinking
<1>4. /\ Cardinality(S1) \in Nat /\ Cardinality(T1) \in Nat
      /\ Cardinality(S \cup {x}) \in Nat /\ Cardinality(T \ {y}) \in Nat
  BY <1>1, <1>2, FS_Subset, FS_CardinalityType
<1> QED
  BY <1>0, <1>1, <1>2, <1>3, <1>4

\* Before the first entry the bound holds because the holders are that many.
LEMMA BeforeFirstEntry ==
  ASSUME NEW s \in Sources, \A q \in OpenOf(s) : \E p \in Holders(s) : handle[p] = q
  PROVE  Cardinality(OpenOf(s)) + Cardinality(Openers(s)) <= Cardinality(Procs)
<1> DEFINE holder == [q \in OpenOf(s) |-> CHOOSE p \in Holders(s) : handle[p] = q]
<1>1. /\ OpenOf(s) \in SUBSET PoolIds /\ Openers(s) \in SUBSET Procs
      /\ Holders(s) \in SUBSET Procs /\ Holders(s) \cup Openers(s) \in SUBSET Procs
      /\ Holders(s) \cap Openers(s) = {}
  BY DEF OpenOf, Openers, Holders, Opening
<1>2. \A q \in OpenOf(s) : holder[q] \in Holders(s) /\ handle[holder[q]] = q
  OBVIOUS
<1>3. holder \in Injection(OpenOf(s), Holders(s))
  BY <1>2 DEF Injection, IsInjective
<1>4. Cardinality(OpenOf(s)) <= Cardinality(Holders(s))
  BY <1>1, <1>3, Finite, FS_Injection
<1>5. Cardinality(Holders(s) \cup Openers(s)) = Cardinality(Holders(s)) + Cardinality(Openers(s))
  <2>1. /\ IsFiniteSet(Holders(s)) /\ IsFiniteSet(Openers(s))
        /\ Cardinality(Holders(s)) \in Nat /\ Cardinality(Openers(s)) \in Nat
    BY <1>1, Finite
  <2>2. Cardinality(Holders(s) \cap Openers(s)) = 0
    BY <1>1, FS_EmptySet
  <2>3. Cardinality(Holders(s) \cup Openers(s))
          = Cardinality(Holders(s)) + Cardinality(Openers(s)) - Cardinality(Holders(s) \cap Openers(s))
    BY <2>1, FS_Union
  <2> QED
    BY <2>1, <2>2, <2>3
<1>6. Cardinality(Holders(s) \cup Openers(s)) <= Cardinality(Procs)
  BY <1>1, Finite, FS_Subset
<1>7. /\ Cardinality(OpenOf(s)) \in Nat /\ Cardinality(Openers(s)) \in Nat
      /\ Cardinality(Holders(s)) \in Nat /\ Cardinality(Procs) \in Nat
  BY <1>1, Finite
<1> QED
  BY <1>4, <1>5, <1>6, <1>7

\* A step that opens no pool of s and makes nobody an opener once s has an entry, and
\* that leaves every holder of a pool that stays open where it is.
LEMMA NothingOpens ==
  ASSUME NEW s \in Sources, RaceOf(s), BeforeClose(KindOf[s])' => BeforeClose(KindOf[s]),
         pools'[s] = pools[s], OpenOf(s)' \subseteq OpenOf(s),
         pools[s] # NoPool => Openers(s)' \subseteq Openers(s),
         \A r \in Holders(s) : handle[r] \in OpenOf(s)' =>
             r \in Holders(s)' /\ handle'[r] = handle[r]
  PROVE  RaceOf(s)'
<1> SUFFICES ASSUME BeforeClose(KindOf[s])' PROVE RaceOf(s)'
  BY DEF RaceOf
<1>1. CASE pools[s] = NoPool
  BY <1>1 DEF RaceOf
<1>2. CASE pools[s] # NoPool
  <2>1. /\ OpenOf(s) \in SUBSET PoolIds /\ Openers(s) \in SUBSET Procs
        /\ OpenOf(s)' \in SUBSET OpenOf(s) /\ Openers(s)' \in SUBSET Openers(s)
    BY <1>2 DEF OpenOf, Openers
  <2>2. Cardinality(OpenOf(s)') + Cardinality(Openers(s)')
          <= Cardinality(OpenOf(s)) + Cardinality(Openers(s))
    BY <2>1, Finite, Shrinking
  <2>3. Cardinality(OpenOf(s)) + Cardinality(Openers(s)) <= Cardinality(Procs)
    BY <1>2 DEF RaceOf
  <2>4. /\ Cardinality(OpenOf(s)) \in Nat /\ Cardinality(Openers(s)) \in Nat
        /\ Cardinality(OpenOf(s)') \in Nat /\ Cardinality(Openers(s)') \in Nat
        /\ Cardinality(Procs) \in Nat
    <3>1. OpenOf(s)' \in SUBSET PoolIds /\ Openers(s)' \in SUBSET Procs
      BY <2>1
    <3> QED
      BY <2>1, <3>1, Finite
  <2>5. Cardinality(OpenOf(s)') + Cardinality(Openers(s)') <= Cardinality(Procs)
    BY <2>2, <2>3, <2>4
  <2> QED
    BY <1>2, <2>5 DEF RaceOf
<1> QED
  BY <1>1, <1>2

\* A goroutine moves: to "open" only where there is no entry, and not away from a pool
\* that it opens.
LEMMA MoveCounts ==
  ASSUME IInv, Race, NEW p \in Procs,
         UNCHANGED <<poolVars, mainVars>>,
         \A r \in Procs \ {p} :
             pc'[r] = pc[r] /\ target'[r] = target[r] /\ handle'[r] = handle[r],
         pc'[p] \in {"open", "reopen"} => pools[target'[p]] = NoPool,
         pc[p] \in Opening =>
             pc'[p] \in Opening /\ target'[p] = target[p] /\ handle'[p] = handle[p]
  PROVE  Race'
<1> SUFFICES ASSUME NEW s \in Sources PROVE RaceOf(s)'
  BY DEF Race
<1>1. OpenOf(s)' = OpenOf(s) /\ pools'[s] = pools[s]
  BY DEF OpenOf, Closable, poolVars
<1>2. pools[s] # NoPool => Openers(s)' \subseteq Openers(s)
  BY DEF Openers
<1>3. \A r \in Holders(s) : r \in Holders(s)' /\ handle'[r] = handle[r]
  BY DEF Holders
<1>4. BeforeClose(KindOf[s])' => BeforeClose(KindOf[s])
  BY DEF BeforeClose, mainVars
<1> QED
  BY <1>1, <1>2, <1>3, <1>4, NothingOpens DEF Race

LEMMA CallCounts ==
  ASSUME IInv, Race, NEW p \in Procs, NEW s \in Sources,
         CallConnect(p, s) \/ CallClient(p, s) \/ (p = Refresher /\ IndexSource(s))
  PROVE  Race'
<1>1. /\ UNCHANGED <<poolVars, mainVars>>
      /\ pc[p] \notin Opening /\ pc'[p] \notin {"open", "reopen"}
      /\ \A r \in Procs \ {p} :
             pc'[r] = pc[r] /\ target'[r] = target[r] /\ handle'[r] = handle[r]
  BY DEF IInv, TypeOK, Opening, At, Goto, CallConnect, CallClient, IndexSource
<1> QED
  BY <1>1, MoveCounts

LEMMA LocalCounts ==
  ASSUME IInv, Race, NEW p \in Procs,
         \/ ClientLookup(p) \/ Lookup(p) \/ OpenFails(p) \/ PingOk(p) \/ Reclient(p)
         \/ Begin(p) \/ Refused(p) \/ Finish(p) \/ Leave(p)
  PROVE  Race'
<1> USE DEF ClientLookup, Lookup, OpenFails, PingOk, Reclient, Begin, Refused, Finish, Leave
<1>1. UNCHANGED <<poolVars, mainVars>>
  OBVIOUS
<1>2. \A r \in Procs \ {p} :
          pc'[r] = pc[r] /\ target'[r] = target[r] /\ handle'[r] = handle[r]
  BY DEF IInv, TypeOK, Goto, Return
<1>3. pc'[p] \in {"open", "reopen"} => pools[target'[p]] = NoPool
  BY DEF IInv, TypeOK, Goto, Return
<1>4. pc[p] \in Opening =>
          pc'[p] \in Opening /\ target'[p] = target[p] /\ handle'[p] = handle[p]
  BY DEF IInv, TypeOK, Opening, At, Busy, Goto
<1> QED
  BY <1>1, <1>2, <1>3, <1>4, MoveCounts

\* The opener of a pool becomes its holder.
LEMMA OpenCounts ==
  ASSUME IInv, Race, NEW p \in Procs, Open(p)
  PROVE  Race'
<1> DEFINE n == opened + 1
<1>0. /\ n \in PoolIds /\ target[p] \in Sources /\ n # NoPool
      /\ pc[p] \in {"open", "reopen"} /\ pc'[p] \in Opening /\ handle'[p] = n
      /\ \A r \in Procs : r # p => pc'[r] = pc[r] /\ handle'[r] = handle[r]
      /\ \A q \in PoolIds : q # n => status'[q] = status[q] /\ srcOf'[q] = srcOf[q]
      /\ srcOf'[n] = target[p] /\ target' = target /\ pools' = pools
  BY BoundAssumption DEF IInv, TypeOK, Open, At, Goto, Opening, Targets, PoolIds, NoPool
<1>1. \A k \in Kinds : BeforeClose(k)' <=> BeforeClose(k)
  BY DEF Open, BeforeClose, mainVars
<1> SUFFICES ASSUME NEW s \in Sources PROVE RaceOf(s)'
  BY DEF Race
<1>2. CASE s # target[p]
  <2>1. OpenOf(s)' \subseteq OpenOf(s)
    BY <1>0, <1>2 DEF OpenOf, Closable
  <2>2. Openers(s)' \subseteq Openers(s)
    BY <1>0, <1>2 DEF Openers
  <2>3. \A r \in Holders(s) : r \in Holders(s)' /\ handle'[r] = handle[r]
    BY <1>0, <1>2 DEF Holders
  <2> QED
    BY <1>0, <1>1, <2>1, <2>2, <2>3, NothingOpens DEF Race
<1>3. CASE s = target[p]
  <2>0. /\ OpenOf(s)' \subseteq OpenOf(s) \cup {n}
        /\ p \in Openers(s) /\ Openers(s)' \subseteq Openers(s) \ {p}
        /\ \A r \in Holders(s) : r \in Holders(s)' /\ handle'[r] = handle[r]
        /\ p \in Holders(s)' /\ handle'[p] = n
    <3>1. OpenOf(s)' \subseteq OpenOf(s) \cup {n}
      BY <1>0, <1>3 DEF OpenOf, Closable
    <3>2. p \in Openers(s) /\ Openers(s)' \subseteq Openers(s) \ {p}
      BY <1>0, <1>3 DEF Openers, Opening
    <3>3. p \in Holders(s)' /\ \A r \in Holders(s) : r \in Holders(s)' /\ handle'[r] = handle[r]
      BY <1>0, <1>3 DEF Holders, Opening
    <3> QED
      BY <1>0, <3>1, <3>2, <3>3
  <2> SUFFICES ASSUME BeforeClose(KindOf[s])' PROVE RaceOf(s)'
    BY DEF RaceOf
  <2>1. CASE pools[s] = NoPool
    BY <1>0, <1>1, <2>0, <2>1 DEF Race, RaceOf
  <2>2. CASE pools[s] # NoPool
    <3>1. /\ OpenOf(s) \in SUBSET PoolIds /\ Openers(s) \in SUBSET Procs
          /\ OpenOf(s)' \in SUBSET PoolIds /\ Openers(s)' \in SUBSET Procs
      BY <1>0, <2>0 DEF OpenOf, Openers
    <3>2. Cardinality(OpenOf(s)') + Cardinality(Openers(s)')
            <= Cardinality(OpenOf(s)) + Cardinality(Openers(s))
      BY <2>0, <3>1, Finite, Swapping
    <3>3. Cardinality(OpenOf(s)) + Cardinality(Openers(s)) <= Cardinality(Procs)
      BY <1>1, <2>2 DEF Race, RaceOf
    <3>4. Cardinality(OpenOf(s)') + Cardinality(Openers(s)') <= Cardinality(Procs)
      BY <3>1, <3>2, <3>3, Finite
    <3> QED
      BY <1>0, <2>2, <3>4 DEF RaceOf
  <2> QED
    BY <2>1, <2>2
<1> QED
  BY <1>2, <1>3

\* Who retries a ping gives up an open pool for the right to open another.
LEMMA PingFailsCounts ==
  ASSUME IInv, Race, NEW p \in Procs, PingFails(p)
  PROVE  Race'
<1> DEFINE q == handle[p]
<1>0. /\ q \in PoolIds /\ target[p] \in Sources /\ pc[p] \in Opening
      /\ srcOf[q] = target[p] /\ status[q] = "open" /\ pc'[p] \in {"idle", "reopen"}
      /\ pc'[p] = "reopen" => target'[p] = target[p] /\ Driver[KindOf[target[p]]].retries
      /\ \A r \in Procs : r # p => /\ pc'[r] = pc[r] /\ handle'[r] = handle[r]
                                   /\ target'[r] = target[r] /\ handle[r] # q
      /\ status'[q] # "open" \/ ~Closable(q)
      /\ \A r \in PoolIds : r # q => status'[r] = status[r]
      /\ srcOf' = srcOf /\ pools' = pools
  BY DEF IInv, TypeOK, PingFails, At, Goto, Return, Opening, Targets, Private, Closable,
         Kind, NoPool
<1>1. \A k \in Kinds : BeforeClose(k)' <=> BeforeClose(k)
  BY DEF PingFails, BeforeClose, mainVars
<1>2. ASSUME NEW s \in Sources
      PROVE  /\ OpenOf(s)' \subseteq OpenOf(s) \ {q}
             /\ \A r \in Holders(s) : r # p => r \in Holders(s)' /\ handle'[r] = handle[r]
             /\ \A r \in Openers(s)' : r # p => r \in Openers(s)
             /\ p \in Openers(s)' => s = target[p] /\ Driver[KindOf[s]].retries
  <2>1. OpenOf(s)' \subseteq OpenOf(s) \ {q}
    BY <1>0 DEF OpenOf, Closable
  <2>2. \A r \in Holders(s) : r # p => r \in Holders(s)' /\ handle'[r] = handle[r]
    BY <1>0 DEF Holders
  <2>3. \A r \in Openers(s)' : r # p => r \in Openers(s)
    BY <1>0 DEF Openers
  <2>4. p \in Openers(s)' => s = target[p] /\ Driver[KindOf[s]].retries
    BY <1>0 DEF Openers
  <2> QED
    BY <2>1, <2>2, <2>3, <2>4
<1>3. ASSUME NEW k \in Kinds, Driver[k].retries PROVE Driver[k].close # "none"
  BY <1>3 DEF Driver, Kinds, clickhousePool, elasticsearchPool, mongodbPool, mysqlPool,
              postgresPool, redisPool, sqlitePool
<1> SUFFICES ASSUME NEW s \in Sources, BeforeClose(KindOf[s])' PROVE RaceOf(s)'
  BY DEF Race, RaceOf
<1>4. CASE pools[s] # NoPool /\ p \in Openers(s)'
  <2>1. q \in OpenOf(s)
    BY <1>0, <1>2, <1>3, <1>4 DEF OpenOf, Closable
  <2>2. /\ OpenOf(s) \in SUBSET PoolIds /\ Openers(s) \in SUBSET Procs
        /\ Openers(s)' \in SUBSET (Openers(s) \cup {p}) /\ Openers(s)' \in SUBSET Procs
        /\ OpenOf(s)' \in SUBSET (OpenOf(s) \ {q}) /\ OpenOf(s)' \in SUBSET PoolIds
    <3>1. OpenOf(s) \in SUBSET PoolIds /\ Openers(s) \in SUBSET Procs /\ Openers(s)' \in SUBSET Procs
      BY DEF OpenOf, Openers
    <3> QED
      BY <1>2, <3>1
  <2>3. Cardinality(Openers(s)') + Cardinality(OpenOf(s)')
          <= Cardinality(Openers(s)) + Cardinality(OpenOf(s))
    BY <2>1, <2>2, Finite, Swapping
  <2>4. Cardinality(OpenOf(s)) + Cardinality(Openers(s)) <= Cardinality(Procs)
    BY <1>1, <1>4 DEF Race, RaceOf
  <2>5. Cardinality(OpenOf(s)') + Cardinality(Openers(s)') <= Cardinality(Procs)
    BY <2>2, <2>3, <2>4, Finite
  <2> QED
    BY <1>0, <1>4, <2>5 DEF RaceOf
<1>5. CASE pools[s] = NoPool \/ p \notin Openers(s)'
  <2>1. \A r \in Holders(s) : handle[r] \in OpenOf(s)' => r \in Holders(s)' /\ handle'[r] = handle[r]
    BY <1>2
  <2>2. OpenOf(s)' \subseteq OpenOf(s) /\ (pools[s] # NoPool => Openers(s)' \subseteq Openers(s))
    BY <1>2, <1>5
  <2> QED
    BY <1>0, <1>1, <2>1, <2>2, NothingOpens DEF Race
<1> QED
  BY <1>4, <1>5

\* The first entry of a source: whoever holds a pool of it goes on holding one of the
\* open pools, and whoever has not opened one yet may still do so.
LEMMA StoreCounts ==
  ASSUME IInv, Race, NEW p \in Procs, Store(p)
  PROVE  Race'
<1>0. /\ target[p] \in Sources /\ handle[p] # NoPool
      /\ pc[p] \in Opening /\ pc'[p] \notin {"open", "reopen"}
      /\ \A r \in Procs : r # p => pc'[r] = pc[r]
      /\ \A s \in Sources : pools'[s] = IF s = target[p] THEN handle[p] ELSE pools[s]
      /\ UNCHANGED <<status, srcOf, target, handle, mainVars>>
  BY DEF IInv, TypeOK, Store, At, Goto, Opening, Targets, Private
<1>1. \A k \in Kinds : BeforeClose(k)' <=> BeforeClose(k)
  BY <1>0 DEF BeforeClose, mainVars
<1> SUFFICES ASSUME NEW s \in Sources, BeforeClose(KindOf[s])' PROVE RaceOf(s)'
  BY DEF Race, RaceOf
<1>2. OpenOf(s)' = OpenOf(s) /\ Openers(s)' = Openers(s)
  BY <1>0 DEF OpenOf, Closable, Openers, Opening
<1>3. CASE s # target[p]
  <2>1. \A r \in Holders(s) : r \in Holders(s)' /\ handle'[r] = handle[r]
    BY <1>0, <1>3 DEF Holders
  <2> QED
    BY <1>0, <1>1, <1>2, <1>3, <2>1, NothingOpens DEF Race
<1>4. CASE s = target[p]
  <2>1. Cardinality(OpenOf(s)) + Cardinality(Openers(s)) <= Cardinality(Procs)
    BY <1>1, BeforeFirstEntry DEF Race, RaceOf
  <2> QED
    BY <1>0, <1>2, <1>4, <2>1 DEF RaceOf
<1> QED
  BY <1>3, <1>4

LEMMA MainCounts ==
  ASSUME IInv, Race, Main \/ Signal
  PROVE  Race'
<1> SUFFICES ASSUME NEW s \in Sources, BeforeClose(KindOf[s])' PROVE RaceOf(s)'
  BY DEF Race, RaceOf
<1>1. UNCHANGED procVars /\ srcOf' = srcOf
  BY DEF Main, Signal, Drained, DrainExpires, CloseAllBegins, CloseAllReturns, ClosePool,
         CloseReturns, Exit, poolVars
<1>2. BeforeClose(KindOf[s]) /\ pools'[s] = pools[s]
  <2>1. CASE CloseAllReturns
    BY <2>1 DEF CloseAllReturns, BeforeClose
  <2>2. CASE CloseAllBegins
    BY <2>2 DEF CloseAllBegins, BeforeClose, NoKind, Kinds, poolVars
  <2>3. CASE (Main /\ ~CloseAllReturns /\ ~CloseAllBegins) \/ Signal
    BY <2>3 DEF Main, Signal, Drained, DrainExpires, ClosePool, CloseReturns, Exit,
                BeforeClose, poolVars, mainVars
  <2> QED
    BY <2>1, <2>2, <2>3
<1>3. \A q \in PoolIds : status'[q] = "open" => status[q] = "open"
  <2>1. CASE \E q \in PoolIds : ClosePool(q) \/ CloseReturns(q)
    BY <2>1 DEF ClosePool, CloseReturns, IInv, TypeOK
  <2>2. CASE ~\E q \in PoolIds : ClosePool(q) \/ CloseReturns(q)
    BY <2>2 DEF Main, Signal, Drained, DrainExpires, CloseAllBegins, CloseAllReturns, Exit,
                poolVars
  <2> QED
    BY <2>1, <2>2
<1>4. /\ OpenOf(s)' \subseteq OpenOf(s) /\ Openers(s)' = Openers(s)
      /\ Holders(s)' = Holders(s) /\ handle' = handle
  BY <1>1, <1>3 DEF OpenOf, Closable, Openers, Holders, procVars
<1> QED
  BY <1>2, <1>4, NothingOpens DEF Race

LEMMA RaceHolds == Spec => []Race
<1>1. Init => Race
  BY DEF Init, Race, RaceOf, OpenOf, PoolIds
<1>2. IInv /\ Race /\ [Next]_vars => Race'
  <2> SUFFICES ASSUME IInv, Race, [Next]_vars PROVE Race'
    OBVIOUS
  <2>1. ASSUME NEW p \in Procs, Proc(p) PROVE Race'
    BY <2>1, LocalCounts, OpenCounts, PingFailsCounts, StoreCounts DEF Proc
  <2>2. ASSUME NEW s \in Sources,
               (\E h \in Handlers : CallConnect(h, s) \/ CallClient(h, s)) \/ IndexSource(s)
        PROVE  Race'
    BY <2>2, CallCounts DEF Procs
  <2>3. CASE Main \/ Signal
    BY <2>3, MainCounts
  <2>4. CASE UNCHANGED vars
    BY <2>4 DEF vars, poolVars, procVars, mainVars, Race, RaceOf, BeforeClose, OpenOf,
                Openers, Holders, Closable
  <2> QED
    BY <2>1, <2>2, <2>3, <2>4 DEF Next, Exited
<1> QED
  BY <1>1, <1>2, IInvHolds, PTL DEF Spec

-----------------------------------------------------------------------------
(* Why a shutdown does not stop half way.  The adapters are closed in the   *)
(* order of their kinds, so "closed" is always a prefix of that order; a    *)
(* pool of a map has been opened; only a Close that waits takes time.       *)

Before(i) == {KindOrder[j] : j \in 1 .. (i - 1)}

InTurn ==
    \E i \in 1 .. 8 :
        /\ closed = Before(i)
        /\ closing # NoKind => i # 8 /\ closing = KindOrder[i]

Opened == \A q \in PoolIds : q <= opened => status[q] # "unopened"

OnlyWaitsTakeTime ==
    \A q \in PoolIds : status[q] = "closing" => Driver[closing].close = "wait"

TurnInv == InTurn /\ Opened /\ OnlyWaitsTakeTime

\* The kinds in order, and the sets closed on the way.
LEMMA Turns ==
  /\ Len(KindOrder) = 7
  /\ Before(1) = {} /\ Before(8) = Kinds
  /\ \A i \in 1 .. 7 : KindOrder[i] \in Kinds /\ Before(i + 1) = Before(i) \cup {KindOrder[i]}
<1>1. Len(KindOrder) = 7
  BY DEF KindOrder
<1>2. Before(1) = {}
  BY DEF Before
<1>3. \A i \in 1 .. 7 : Before(i + 1) = Before(i) \cup {KindOrder[i]}
  BY DEF Before
<1>4. \A i \in 1 .. 7 : KindOrder[i] \in Kinds
  BY DEF KindOrder, Kinds
<1>5. Kinds \subseteq {KindOrder[j] : j \in 1 .. 7}
  BY DEF KindOrder, Kinds
<1>6. Before(8) = {KindOrder[j] : j \in 1 .. 7}
  BY DEF Before
<1> QED
  BY <1>1, <1>2, <1>3, <1>4, <1>5, <1>6

LEMMA TurnHolds == Spec => []TurnInv
<1>1. Init => TurnInv
  <2> SUFFICES ASSUME Init PROVE TurnInv
    OBVIOUS
  <2>1. InTurn
    BY Turns DEF Init, InTurn
  <2> QED
    BY <2>1 DEF Init, TurnInv, Opened, OnlyWaitsTakeTime, PoolIds
<1>2. IInv /\ TurnInv /\ [Next]_vars => TurnInv'
  <2> SUFFICES ASSUME IInv, TurnInv, [Next]_vars PROVE TurnInv'
    OBVIOUS
  <2>1. ASSUME UNCHANGED mainVars,
               \A q \in PoolIds : status'[q] \in {"closing", "unopened"} => status'[q] = status[q],
               opened' = opened
        PROVE  TurnInv'
    BY <2>1 DEF TurnInv, InTurn, Opened, OnlyWaitsTakeTime, mainVars, Before
  <2>2. ASSUME NEW p \in Procs, Open(p) PROVE TurnInv'
    <3>1. /\ opened \in Nat /\ opened + 1 \in PoolIds /\ opened' = opened + 1
          /\ \A q \in PoolIds : status'[q] = IF q = opened + 1 THEN "open" ELSE status[q]
      BY <2>2 DEF Open, IInv, TypeOK, PoolIds
    <3>2. Opened'
      <4> SUFFICES ASSUME NEW q \in PoolIds, q <= opened + 1 PROVE status'[q] # "unopened"
        BY <3>1 DEF Opened
      <4>1. q = opened + 1 \/ q <= opened
        BY <3>1 DEF PoolIds
      <4> QED
        BY <3>1, <4>1 DEF TurnInv, Opened
    <3>3. InTurn' /\ OnlyWaitsTakeTime'
      BY <2>2, <3>1 DEF Open, TurnInv, InTurn, OnlyWaitsTakeTime, mainVars, Before
    <3> QED
      BY <3>2, <3>3 DEF TurnInv
  <2>3. ASSUME NEW p \in Procs, Proc(p), ~Open(p) PROVE TurnInv'
    <3>1. CASE PingFails(p)
      BY <2>1, <3>1 DEF PingFails, IInv, TypeOK
    <3>2. CASE ~PingFails(p)
      <4>1. UNCHANGED <<status, opened, mainVars>>
        BY <2>3, <3>2 DEF Proc, ClientLookup, Lookup, OpenFails, PingOk, Store, Reclient,
                          Begin, Refused, Finish, Leave, poolVars
      <4> QED
        BY <2>1, <4>1
    <3> QED
      BY <3>1, <3>2
  <2>4. ASSUME NEW s \in Sources,
               (\E h \in Handlers : CallConnect(h, s) \/ CallClient(h, s)) \/ IndexSource(s)
        PROVE  TurnInv'
    BY <2>1, <2>4 DEF CallConnect, CallClient, IndexSource, poolVars
  <2>5. CASE Signal \/ Drained \/ DrainExpires \/ Exit
    BY <2>5 DEF Signal, Drained, DrainExpires, Exit, poolVars, TurnInv, InTurn, Opened,
                OnlyWaitsTakeTime, Before
  <2>6. CASE CloseAllBegins
    <3>1. PICK i \in 1 .. 7 : closed = Before(i) /\ closing' = KindOrder[i]
      BY <2>6, Turns DEF CloseAllBegins, Before
    <3>2. InTurn'
      <4>1. closed' = Before(i) /\ i \in 1 .. 8 /\ i # 8
        BY <2>6, <3>1 DEF CloseAllBegins
      <4> QED
        BY <3>1, <4>1 DEF InTurn, Before
    <3>3. \A q \in PoolIds : status[q] # "closing"
      BY <2>6 DEF CloseAllBegins, IInv, ClosingOwned, NoKind, Kinds
    <3> QED
      BY <2>6, <3>2, <3>3 DEF CloseAllBegins, poolVars, TurnInv, Opened, OnlyWaitsTakeTime
  <2>7. CASE CloseAllReturns
    <3>1. PICK i \in 1 .. 7 : closed = Before(i) /\ closing = KindOrder[i]
      BY <2>7 DEF CloseAllReturns, TurnInv, InTurn
    <3>2. closed' = Before(i + 1) /\ closing' = NoKind /\ i + 1 \in 1 .. 8
      BY <2>7, <3>1, Turns DEF CloseAllReturns
    <3>3. InTurn'
      BY <3>2 DEF InTurn, Before
    <3>4. \A q \in PoolIds : status[q] # "closing"
      BY <2>7 DEF CloseAllReturns, IInv, ClosingOwned, OwnedBy
    <3> QED
      BY <2>7, <3>3, <3>4 DEF CloseAllReturns, TurnInv, Opened, OnlyWaitsTakeTime
  <2>8. ASSUME NEW q \in PoolIds, ClosePool(q) PROVE TurnInv'
    <3>1. \A r \in PoolIds : status'[r] =
            IF r # q THEN status[r]
            ELSE IF Driver[closing].close = "wait" THEN "closing" ELSE "closed"
      BY <2>8 DEF ClosePool, IInv, TypeOK
    <3> QED
      BY <2>8, <3>1 DEF ClosePool, mainVars, TurnInv, InTurn, Opened, OnlyWaitsTakeTime, Before
  <2>9. ASSUME NEW q \in PoolIds, CloseReturns(q) PROVE TurnInv'
    BY <2>1, <2>9 DEF CloseReturns, IInv, TypeOK
  <2>10. CASE UNCHANGED vars
    BY <2>1, <2>10 DEF vars, poolVars
  <2> QED
    BY <2>2, <2>3, <2>4, <2>5, <2>6, <2>7, <2>8, <2>9, <2>10 DEF Next, Main, Exited
<1> QED
  BY <1>1, <1>2, IInvHolds, PTL DEF Spec

\* What main can do next, by the guards of its actions.
MainGoesOn ==
    \/ phase = "draining"
    \/ phase = "closing" /\ closing = NoKind /\ \E i \in 1 .. Len(KindOrder) : closed = Before(i)
    \/ closing # NoKind /\ \A q \in PoolIds : OwnedBy(q, closing) =>
         status[q] = "closed" \/ Driver[closing].close = "none"
    \/ \E q \in PoolIds :
         /\ closing # NoKind /\ OwnedBy(q, closing)
         /\ status[q] = "open" /\ Driver[closing].close # "none"
         /\ \A r \in PoolIds : status[r] # "closing"
    \/ \E q \in PoolIds : status[q] = "closing" /\ ~InUse(q)
    \/ phase = "closing" /\ closed = Kinds

\* A deadline that is running: of a query, or of the refresher after the signal.
DeadlinePends ==
    \E p \in Procs : pc[p] = "querying" \/ (p = Refresher /\ phase # "serving" /\ Busy(p))

\* During a shutdown main can always go on, or waits for an operation whose
\* deadline will end it, or waits for a handler's catalog query, which has no
\* deadline: of MongoDB or PostgreSQL, whose Close waits for connections in use.
NeverStuck ==
    phase \in {"draining", "closing"} =>
        \/ MainGoesOn
        \/ DeadlinePends
        \/ \E h \in Handlers : HangsClose(h) /\ Kind(h) \in {"mongodb", "postgres"}

Onward(x, y) ==
    \/ x = y /\ x # "unopened"
    \/ x = "open" /\ y \in {"closing", "closed"}
    \/ x = "closing" /\ y = "closed"

\* While CloseAll of an adapter holds the mutex, the map it walks does not change
\* under it, and no pool of the map goes back: the walk comes to its end.
WalkAdvances ==
    closing # NoKind /\ closing' = closing =>
        \A s \in Sources : KindOf[s] = closing =>
            /\ pools'[s] = pools[s]
            /\ pools[s] # NoPool => Onward(status[pools[s]], status'[pools[s]])

\* Only these two adapters' Close waits.
LEMMA Waiting == \A k \in Kinds : Driver[k].close = "wait" => k \in {"mongodb", "postgres"}
  BY DEF Driver, Kinds, clickhousePool, elasticsearchPool, mysqlPool, redisPool, sqlitePool

LEMMA NotStuck == IInv /\ TurnInv => NeverStuck
<1> SUFFICES ASSUME IInv, TurnInv, phase \in {"draining", "closing"}, ~MainGoesOn
             PROVE  \/ DeadlinePends
                    \/ \E h \in Handlers : HangsClose(h) /\ Kind(h) \in {"mongodb", "postgres"}
  BY DEF NeverStuck
<1>1. phase = "closing"
  BY DEF MainGoesOn
<1>2. closing # NoKind
  <2>1. PICK i \in 1 .. 8 : closed = Before(i)
    BY DEF TurnInv, InTurn
  <2>2. i = 8 \/ i \in 1 .. 7
    OBVIOUS
  <2> QED
    BY <1>1, <2>1, <2>2, Turns DEF MainGoesOn
<1>3. PICK q \in PoolIds : /\ OwnedBy(q, closing) /\ Driver[closing].close # "none"
                           /\ status[q] # "closed"
  BY <1>2 DEF MainGoesOn
<1>4. status[q] \in {"open", "closing"}
  <2>1. q <= opened
    BY <1>3 DEF OwnedBy, IInv, Numbering
  <2> QED
    BY <1>3, <2>1 DEF TurnInv, Opened, IInv, TypeOK
<1>5. PICK r \in PoolIds : status[r] = "closing"
  BY <1>2, <1>3, <1>4 DEF MainGoesOn
<1>6. PICK p \in Procs : Busy(p) /\ handle[p] = r
  BY <1>5 DEF MainGoesOn, InUse
<1>7. Kind(p) \in {"mongodb", "postgres"}
  <2>1. handle[p] # NoPool /\ srcOf[r] = target[p]
    BY <1>6 DEF IInv, Targets
  <2>2. closing = Kind(p) /\ closing \in Kinds
    BY <1>2, <1>5, <2>1 DEF IInv, TypeOK, ClosingOwned, Kind
  <2> QED
    BY <1>5, <2>2, Waiting DEF TurnInv, OnlyWaitsTakeTime
<1>8. CASE pc[p] = "querying" \/ p = Refresher
  BY <1>1, <1>6, <1>8 DEF DeadlinePends
<1>9. CASE pc[p] = "browsing" /\ p \in Handlers
  BY <1>5, <1>6, <1>7, <1>9 DEF HangsClose, IInv, Targets
<1> QED
  BY <1>6, <1>8, <1>9 DEF Busy, Procs

LEMMA WalkStep == IInv /\ TurnInv /\ [Next]_vars => WalkAdvances
<1> SUFFICES ASSUME IInv, TurnInv, [Next]_vars, closing # NoKind, closing' = closing,
                    NEW s \in Sources, KindOf[s] = closing
             PROVE  /\ pools'[s] = pools[s]
                    /\ pools[s] # NoPool => Onward(status[pools[s]], status'[pools[s]])
  BY DEF WalkAdvances
<1> DEFINE q == pools[s]
<1>1. pools'[s] = pools[s]
  <2>1. ASSUME NEW p \in Procs, Store(p) PROVE pools'[s] = pools[s]
    <3>1. target[p] \in Sources /\ target[p] # s
      BY <2>1 DEF Store, At, MutexFree, Kind, IInv, Targets
    <3> QED
      BY <2>1, <3>1 DEF Store, IInv, TypeOK
  <2>2. CASE CloseAllReturns
    BY <2>2 DEF CloseAllReturns
  <2>3. ASSUME ~CloseAllReturns, ~\E p \in Procs : Store(p) PROVE pools' = pools
    BY <2>3 DEF Next, Proc, Main, CallConnect, CallClient, IndexSource, ClientLookup, Lookup,
                Open, OpenFails, PingOk, PingFails, Reclient, Begin, Refused, Finish, Leave,
                Signal, Drained, DrainExpires, CloseAllBegins, ClosePool, CloseReturns, Exit,
                Exited, vars, poolVars
  <2> QED
    BY <2>1, <2>2, <2>3
<1>2. ASSUME q # NoPool
      PROVE  /\ q \in PoolIds /\ status[q] \in {"open", "closing", "closed"}
             /\ q # opened + 1
  <2>1. q \in PoolIds /\ q <= opened /\ opened \in Nat
    BY <1>2 DEF IInv, TypeOK, Numbering
  <2> QED
    BY <2>1 DEF TurnInv, Opened, IInv, TypeOK, PoolIds
<1>3. ASSUME q # NoPool, status'[q] # status[q]
      PROVE  \/ status[q] = "open" /\ status'[q] \in {"closing", "closed"}
             \/ status[q] = "closing" /\ status'[q] = "closed"
  <2>1. ASSUME NEW p \in Procs, Open(p) PROVE FALSE
    BY <1>2, <1>3, <2>1 DEF Open, IInv, TypeOK
  <2>2. ASSUME NEW p \in Procs, PingFails(p) PROVE FALSE
    <3>1. handle[p] # q
      BY <2>2 DEF PingFails, At, IInv, Private
    <3> QED
      BY <1>2, <1>3, <2>2, <3>1 DEF PingFails, IInv, TypeOK
  <2>3. ASSUME NEW r \in PoolIds, ClosePool(r) \/ CloseReturns(r)
        PROVE  \/ status[q] = "open" /\ status'[q] \in {"closing", "closed"}
               \/ status[q] = "closing" /\ status'[q] = "closed"
    <3>1. status \in [PoolIds -> {"unopened", "open", "closing", "closed"}]
      BY DEF IInv, TypeOK
    <3> QED
      BY <1>2, <1>3, <2>3, <3>1 DEF ClosePool, CloseReturns
  <2>4. ASSUME ~\E p \in Procs : Open(p) \/ PingFails(p),
               ~\E r \in PoolIds : ClosePool(r) \/ CloseReturns(r)
        PROVE  status' = status
    BY <2>4 DEF Next, Proc, Main, CallConnect, CallClient, IndexSource, ClientLookup, Lookup,
                OpenFails, PingOk, Store, Reclient, Begin, Refused, Finish, Leave,
                Signal, Drained, DrainExpires, CloseAllBegins, CloseAllReturns, Exit,
                Exited, vars, poolVars
  <2> QED
    BY <1>3, <2>1, <2>2, <2>3, <2>4
<1> QED
  BY <1>1, <1>2, <1>3 DEF Onward

-----------------------------------------------------------------------------
(* The theorems.                                                           *)

\* Every variable keeps its type.
THEOREM TypeCorrect == Spec => []TypeOK
  BY IInvHolds, PTL DEF IInv

\* A hit of Connect or Client(name) returns an open pool of the right source.
THEOREM HitsAreOpen == Spec => []MapServesOpenPools
  BY IInvHolds, PTL DEF IInv

\* What Connect returned stays usable until the CloseAll of its adapter.
THEOREM HandlesStayUsable == Spec => []HandleUsableUntilCloseAll
  BY IInvHolds, PTL DEF IInv

\* The second Client(name) lookup finds nothing only after a CloseAll.
THEOREM ClientIsThere == Spec => []NilClientOnlyAfterCloseAll
  BY IInvHolds, PTL DEF IInv

\* Only a racing Connect can take an open pool out of the adapters' sight.
THEOREM LeaksAreRaces == Spec => []NoSilentLeak
  BY IInvHolds, PTL DEF IInv

\* An operation is cut by CloseAll only after Shutdown gave up waiting.
THEOREM DrainProtectsHandlers == Spec => []CleanDrainCutsNothing
<1>1. IInv => CleanDrainCutsNothing
  <2> SUFFICES ASSUME IInv, NEW h \in Handlers, Busy(h), ~expired
               PROVE  status[handle[h]] = "open"
    BY DEF CleanDrainCutsNothing
  <2>1. phase \in {"serving", "draining"}
    BY DEF IInv, TypeOK, Phases, Busy
  <2>2. h \in Procs /\ Kind(h) \in Kinds /\ BeforeClose(Kind(h)) /\ handle[h] # NoPool
    BY <2>1 DEF IInv, Phases, Targets, BeforeClose, NoKind, Kinds, Kind, Busy, Procs
  <2> QED
    BY <2>2 DEF IInv, HandleUsableUntilCloseAll, Busy
<1> QED
  BY <1>1, IInvHolds, PTL

\* However many Connects of one source race, the source has no more open pools than
\* there are goroutines, until the CloseAll of its adapter.
THEOREM RacesAreBounded == Spec => []PoolsPerSourceBounded
<1>1. Race => PoolsPerSourceBounded
  <2> SUFFICES ASSUME Race, NEW s \in Sources, BeforeClose(KindOf[s])
               PROVE  Cardinality(OpenOf(s)) <= Cardinality(Procs)
    BY DEF PoolsPerSourceBounded, OpenOf
  <2>1. Cardinality(OpenOf(s)) + Cardinality(Openers(s)) <= Cardinality(Procs)
    BY BeforeFirstEntry DEF Race, RaceOf
  <2>2. OpenOf(s) \in SUBSET PoolIds /\ Openers(s) \in SUBSET Procs
    BY DEF OpenOf, Openers
  <2> QED
    BY <2>1, <2>2, Finite
<1> QED
  BY <1>1, RaceHolds, PTL

\* The safety half of ShutdownCompletes: once main is told to stop, it can go on, or what
\* it waits for has a deadline, or it is the one wait without a deadline: the Close of a
\* MongoDB or PostgreSQL pool under a handler's catalog query.
THEOREM ShutdownIsNeverStuck == Spec => []NeverStuck
  BY IInvHolds, TurnHolds, NotStuck, PTL

\* CloseAll walks a map that no Connect changes under it, and each pool of the map only
\* moves towards closed: a racing Connect cannot make the walk endless.
THEOREM CloseAllWalkAdvances == Spec => [][WalkAdvances]_vars
  BY IInvHolds, TurnHolds, WalkStep, PTL DEF Spec

=============================================================================
