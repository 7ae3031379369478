-------------------------- MODULE PageCoverageProofs --------------------------
(***************************************************************************)
(* What holds of page coverage for any number of pages: ids are unique,    *)
(* and no scanner outlives its page or stop.                               *)
(***************************************************************************)
EXTENDS PageCoverage, WellFoundedInduction, TLAPS

(* Every id given so far is at most the counter, and a registered page is  *)
(* registered under an id it was given.                                    *)
IdInv ==
    /\ \A p \in Pages : \A n \in ids[p] : n <= counter
    /\ \A p \in Pages : registry[p] # 0 => registry[p] \in ids[p]
    /\ UniqueIds

Early == {"capturing", "failed", "interrupted", "checkpoint"}

(* Who looks after a task that is alive, of a page that did not appear     *)
(* late: coverage until its page closes, then the helper that awaits its   *)
(* end; stop, once it has swept; and after that there is none.             *)
OwnerInv ==
    \A p \in Pages : Alive(p) /\ p \notin late =>
        /\ phase \in Early =>
            \/ p \in tracked /\ life[p] = "open"
            \/ p \in closing /\ p \in cancelled
        /\ phase = "awaiting" => p \in cancelled /\ p \in swept \cup closing
        /\ phase \in Early \cup {"awaiting"}

(* A page that was captured left a trace, and a page's own events come     *)
(* before it is marked so.                                                 *)
TraceInv == captured \subseteq told /\ CoveredLeavesTrace

(* A page that has been open the whole of stop is in the list stop goes    *)
(* through, at a place it has still to come to if it is not drained.       *)
HeldInv ==
    /\ \A p \in Pages : life[p] # "unborn" => \E i \in DOMAIN order : order[i] = p
    /\ phase \in {"capturing", "failed", "interrupted"} => held = {}
    /\ \A p \in held : Open(p) /\ inScope[p]
    /\ phase \in Extracting =>
        \A p \in held \ drained : \E i \in turn..Len(order) : order[i] = p
    /\ StopDrains

-----------------------------------------------------------------------------
(* Naming a page keeps ids unique, whichever pages have been forgotten.    *)
LEMMA NamingKeeps ==
    ASSUME registry \in [Pages -> Nat], counter \in Nat,
           ids \in [Pages -> SUBSET (Nat \ {0})], IdInv,
           NEW reg \in [Pages -> Nat], \A q \in Pages : reg[q] \in {0, registry[q]},
           NEW p \in Pages, NameIn(reg, p)
    PROVE  /\ registry' \in [Pages -> Nat] /\ counter' \in Nat
           /\ ids' \in [Pages -> SUBSET (Nat \ {0})]
           /\ IdInv'
<1> DEFINE n == IdIn(reg, p)
<1>1. /\ n \in Nat \ {0} /\ counter' \in Nat
      /\ n <= counter' /\ counter <= counter'
      /\ \A q \in Pages : q # p => n \notin ids[q]
  <2>1. CASE reg[p] # 0
    <3>1. n = registry[p] /\ n \in ids[p] /\ counter' = counter
      BY <2>1 DEF IdIn, NameIn, IdInv
    <3>2. QED
      BY <3>1 DEF IdInv, UniqueIds
  <2>2. CASE reg[p] = 0
    <3>1. n = counter + 1 /\ counter' = counter + 1
      BY <2>2 DEF IdIn, NameIn
    <3>2. QED
      BY <3>1 DEF IdInv
  <2>3. QED
    BY <2>1, <2>2
<1>2. /\ registry' = [reg EXCEPT ![p] = n]
      /\ ids' = [ids EXCEPT ![p] = @ \cup {n}]
  BY DEF NameIn
<1>3. /\ registry' \in [Pages -> Nat]
      /\ ids' \in [Pages -> SUBSET (Nat \ {0})]
  BY <1>1, <1>2
<1>4. /\ ids'[p] = ids[p] \cup {n} /\ registry'[p] = n
      /\ \A q \in Pages : q # p => ids'[q] = ids[q] /\ registry'[q] \in {0, registry[q]}
  BY <1>2
<1> HIDE DEF n
<1>5. \A q \in Pages : \A k \in ids'[q] : k <= counter'
  <2> TAKE q \in Pages
  <2> TAKE k \in ids'[q]
  <2>1. k = n \/ (k \in ids[q] /\ k <= counter /\ k \in Nat)
    BY <1>4 DEF IdInv
  <2>2. QED
    BY <1>1, <2>1
<1>6. \A q \in Pages : registry'[q] # 0 => registry'[q] \in ids'[q]
  BY <1>4 DEF IdInv
<1>7. UniqueIds'
  BY <1>1, <1>4 DEF IdInv, UniqueIds
<1>8. QED
  BY <1>1, <1>3, <1>5, <1>6, <1>7 DEF IdInv

LEMMA ForgettingKeeps ==
    ASSUME registry \in [Pages -> Nat], IdInv, NEW p \in Pages,
           registry' = Forget(p), UNCHANGED <<counter, ids>>
    PROVE  registry' \in [Pages -> Nat] /\ IdInv'
BY DEF Forget, IdInv, UniqueIds

(* What a step does to the names: nothing, or naming one page, or          *)
(* forgetting one, or naming one that is forgotten.                        *)
Renaming ==
    \/ UNCHANGED names
    \/ \E p \in Pages : Name(p)
    \/ \E p \in Pages : registry' = Forget(p) /\ UNCHANGED <<counter, ids>>
    \/ \E p \in Pages : NameIn(Forget(p), p)

LEMMA ScannerRenames ==
    ASSUME NEW p \in Pages, Scanner(p) PROVE Renaming
BY Zenon DEF Scanner, Renaming, names, Loaded, Rearmed, FramesScanned, VisualCaptured,
    StorageRead, Poll, ContentRead, CoverFails, TaskCancelled, GoOn, PassOver, EndPass

LEMMA NextRenames ==
    ASSUME TypeOK, [Next]_vars PROVE Renaming
<1>1. CASE Browser
  <2>1. ASSUME NEW p \in Pages, Appear(p) PROVE Renaming
    BY <2>1, Zenon DEF Appear, Renaming
  <2>2. ASSUME NEW p \in Pages, Navigate(p) PROVE Renaming
    BY <2>2 DEF Navigate, Renaming, names
  <2>3. ASSUME NEW p \in Pages, PageClosed(p) PROVE Renaming
    BY <2>3, Zenon DEF PageClosed, Renaming
  <2>4. QED
    BY <1>1, <2>1, <2>2, <2>3 DEF Browser
<1>2. CASE \E p \in Pages : Scanner(p)
  BY <1>2, ScannerRenames
<1>3. CASE Stopping
  <2>1. CASE Sweep \/ Clear \/ FinalStorage \/ CatalogsRead \/ DrainFails
    BY <2>1 DEF Sweep, Clear, FinalStorage, CatalogsRead, DrainFails, Renaming, names
  <2>2. CASE ProbeDrained \/ WorldRead
    <3>1. order[turn] \in Pages /\ Name(order[turn])
      BY <2>2 DEF ProbeDrained, WorldRead, TypeOK, Extracting
    <3>2. QED
      BY <3>1, Zenon DEF Renaming
  <2>3. QED
    BY <1>3, <2>1, <2>2 DEF Stopping
<1>4. CASE Stop \/ (\E outcome \in {"failed", "interrupted"} : Abort(outcome)) \/ UNCHANGED vars
  BY <1>4 DEF Stop, Abort, vars, names, Renaming
<1>5. QED
  BY <1>1, <1>2, <1>3, <1>4, Zenon DEF Next

LEMMA RenamingKeeps ==
    ASSUME registry \in [Pages -> Nat], counter \in Nat,
           ids \in [Pages -> SUBSET (Nat \ {0})], IdInv, Renaming
    PROVE  /\ registry' \in [Pages -> Nat] /\ counter' \in Nat
           /\ ids' \in [Pages -> SUBSET (Nat \ {0})]
           /\ IdInv'
<1>1. CASE UNCHANGED names
  BY <1>1 DEF names, IdInv, UniqueIds
<1>2. CASE \E p \in Pages : Name(p)
  <2>1. PICK p \in Pages : NameIn(registry, p)
    BY <1>2 DEF Name
  <2>2. QED
    BY <2>1, NamingKeeps
<1>3. CASE \E p \in Pages : registry' = Forget(p) /\ UNCHANGED <<counter, ids>>
  BY <1>3, ForgettingKeeps
<1>4. CASE \E p \in Pages : NameIn(Forget(p), p)
  <2>1. PICK p \in Pages : NameIn(Forget(p), p)
    BY <1>4
  <2>2. Forget(p) \in [Pages -> Nat] /\ \A q \in Pages : Forget(p)[q] \in {0, registry[q]}
    BY DEF Forget
  <2>3. QED
    BY <2>1, <2>2, NamingKeeps
<1>5. QED
  BY <1>1, <1>2, <1>3, <1>4, Zenon DEF Renaming
-----------------------------------------------------------------------------
(* A scanner's step moves the task of a page that has one, and leaves the  *)
(* browser, coverage's own sets and stop alone.                            *)
LEMMA ScannerShape ==
    ASSUME NEW p \in Pages, Scanner(p)
    PROVE  /\ UNCHANGED taskRest
           /\ Alive(p)
           /\ \E s \in Stages \cup {"done"} : task' = [task EXCEPT ![p] = s]
           /\ wasInScope' \in {wasInScope, wasInScope \cup {p}}
           /\ captured' \in {captured, captured \cup {p}}
           /\ told' \in {told, told \cup {p}}
           /\ wasInScope' # wasInScope => Running(p)
           /\ captured' # captured => p \in told'
<1> DEFINE Moves(s) == task' = [task EXCEPT ![p] = s]
           Shape == /\ UNCHANGED taskRest
                    /\ Alive(p)
                    /\ \E s \in Stages \cup {"done"} : Moves(s)
                    /\ wasInScope' \in {wasInScope, wasInScope \cup {p}}
                    /\ captured' \in {captured, captured \cup {p}}
                    /\ told' \in {told, told \cup {p}}
                    /\ wasInScope' # wasInScope => Running(p)
                    /\ captured' # captured => p \in told'
<1>1. CASE Loaded(p)
  BY <1>1 DEF Loaded, Running, Stages
<1>2. CASE Rearmed(p)
  BY <1>2 DEF Rearmed, Running, GoOn, PassOver, Stages
<1>3. CASE FramesScanned(p)
  <2>1. CASE task[p] = "frames"
    BY <1>3, <2>1 DEF FramesScanned, Running, GoOn, PassOver, Stages
  <2>2. CASE task[p] # "frames"
    BY <1>3, <2>2 DEF FramesScanned, Running, GoOn, PassOver, Stages
  <2>3. QED
    BY <2>1, <2>2
<1>4. CASE VisualCaptured(p)
  <2>1. CASE task[p] = "visual"
    BY <1>4, <2>1 DEF VisualCaptured, Running, GoOn, PassOver, EndPass, Stages
  <2>2. CASE task[p] # "visual"
    BY <1>4, <2>2 DEF VisualCaptured, Running, GoOn, PassOver, EndPass, Stages
  <2>3. QED
    BY <2>1, <2>2
<1>5. CASE StorageRead(p)
  BY <1>5 DEF StorageRead, Running, EndPass, Stages
<1>6. CASE Poll(p)
  BY <1>6 DEF Poll, Running, Stages
<1>7. CASE ContentRead(p)
  BY <1>7 DEF ContentRead, Running, GoOn, PassOver, Stages
<1>8. CASE CoverFails(p)
  BY <1>8 DEF CoverFails, Running, Stages
<1>9. CASE TaskCancelled(p)
  BY <1>9 DEF TaskCancelled, Stages
<1>10. QED
  BY <1>1, <1>2, <1>3, <1>4, <1>5, <1>6, <1>7, <1>8, <1>9 DEF Scanner

(* A set of numbers has a least one.                                       *)
LEMMA Least ==
    ASSUME NEW S \in SUBSET Nat, S # {}
    PROVE  \E i \in S : \A j \in S : i <= j
<1>1. PICK i \in S : \A j \in S : ~ (<<j, i>> \in OpToRel(<, Nat))
  BY NatLessThanWellFounded, WFMin, Zenon
<1>2. \A j \in S : ~(j < i)
  BY <1>1 DEF OpToRel
<1>3. QED
  BY <1>2

(* stop takes the first page from a place on that is open and in scope, or *)
(* ends where there is none.                                               *)
LEMMA TurnTaken ==
    ASSUME order \in Seq(Pages), NEW from \in Nat \ {0}, NextTurn(from)
    PROVE  \/ /\ phase' = "stopped" /\ turn' = from
              /\ \A i \in from..Len(order) : ~(Open(order[i]) /\ inScope[order[i]])
           \/ /\ phase' = "drain" /\ turn' \in from..Len(order) /\ turn' \in DOMAIN order
              /\ \A i \in from..Len(order) :
                    Open(order[i]) /\ inScope[order[i]] => turn' <= i
<1> DEFINE due == {i \in from..Len(order) : Open(order[i]) /\ inScope[order[i]]}
<1>1. CASE due = {}
  BY <1>1 DEF NextTurn
<1>2. CASE due # {}
  <2>1. due \in SUBSET Nat
    OBVIOUS
  <2>2. \E i \in due : \A j \in due : i <= j
    BY <1>2, <2>1, Least
  <2>3. phase' = "drain" /\ turn' = CHOOSE i \in due : \A j \in due : i <= j
    BY <1>2 DEF NextTurn
  <2> HIDE DEF due
  <2>4. turn' \in due /\ \A j \in due : turn' <= j
    BY <2>2, <2>3
  <2> USE DEF due
  <2>5. QED
    BY <2>3, <2>4
<1>3. QED
  BY <1>1, <1>2

-----------------------------------------------------------------------------
LEMMA InitTypeOK == Init => TypeOK
<1> SUFFICES ASSUME Init PROVE TypeOK
  OBVIOUS
<1>1. order \in Seq(Pages)
  BY InitialAssumption DEF Init
<1>2. QED
  BY <1>1, InitialAssumption DEF Init, TypeOK, Stages, Phases, Extracting

LEMMA BrowserTypeOK ==
    ASSUME TypeOK, Renaming, Browser,
           registry' \in [Pages -> Nat], counter' \in Nat, ids' \in [Pages -> SUBSET (Nat \ {0})]
    PROVE  TypeOK'
<1>1. ASSUME NEW p \in Pages, Appear(p) PROVE TypeOK'
  <2>1. order' \in Seq(Pages) /\ DOMAIN order \subseteq DOMAIN order'
    BY <1>1 DEF Appear, TypeOK
  <2>2. /\ life' \in [Pages -> {"unborn", "open", "closed"}]
        /\ inScope' \in [Pages -> BOOLEAN]
        /\ everIn' \subseteq Pages /\ late' \subseteq Pages
    BY <1>1 DEF Appear, TypeOK
  <2>3. task' \in [Pages -> Stages \cup {"none", "done"}] /\ tracked' \subseteq Pages
    BY <1>1 DEF Appear, TypeOK, Stages
  <2>4. QED
    BY <1>1, <2>1, <2>2, <2>3 DEF Appear, TypeOK, main
<1>2. ASSUME NEW p \in Pages, Navigate(p) PROVE TypeOK'
  BY <1>2 DEF Navigate, TypeOK, names, covers, main
<1>3. ASSUME NEW p \in Pages, PageClosed(p) PROVE TypeOK'
  BY <1>3 DEF PageClosed, TypeOK, main
<1>4. QED
  BY <1>1, <1>2, <1>3 DEF Browser

LEMMA ScannerTypeOK ==
    ASSUME TypeOK, NEW p \in Pages, Scanner(p),
           registry' \in [Pages -> Nat], counter' \in Nat, ids' \in [Pages -> SUBSET (Nat \ {0})]
    PROVE  TypeOK'
<1>1. PICK s \in Stages \cup {"done"} : task' = [task EXCEPT ![p] = s]
  BY ScannerShape
<1>2. task' \in [Pages -> Stages \cup {"none", "done"}]
  BY <1>1 DEF TypeOK
<1>3. /\ wasInScope' \in {wasInScope, wasInScope \cup {p}}
      /\ captured' \in {captured, captured \cup {p}}
      /\ told' \in {told, told \cup {p}}
      /\ UNCHANGED taskRest
  BY ScannerShape
<1>4. wasInScope' \subseteq Pages /\ captured' \subseteq Pages /\ told' \subseteq Pages
  BY <1>3 DEF TypeOK
<1>5. QED
  BY <1>2, <1>3, <1>4 DEF TypeOK, taskRest, browser, main

LEMMA StoppingTypeOK ==
    ASSUME TypeOK, Stopping,
           registry' \in [Pages -> Nat], counter' \in Nat, ids' \in [Pages -> SUBSET (Nat \ {0})]
    PROVE  TypeOK'
<1>1. CASE Sweep
  BY <1>1 DEF Sweep, TypeOK, browser, history, Phases, Extracting
<1>2. CASE Clear
  BY <1>2, TurnTaken DEF Clear, TypeOK, browser, history, Phases, Extracting
<1>3. CASE phase \in Extracting /\ turn' = turn /\ UNCHANGED DrainRest
           /\ phase' \in Extracting /\ told' \subseteq Pages /\ drained' = drained
  BY <1>3 DEF TypeOK, DrainRest, browser, covers, Phases, Extracting
<1>4. CASE (DrainFails \/ WorldRead)
  <2>1. order[turn] \in Pages /\ turn + 1 \in Nat \ {0} /\ NextTurn(turn + 1)
    BY <1>4 DEF DrainFails, WorldRead, TypeOK, Extracting
  <2>2. /\ UNCHANGED DrainRest
        /\ drained' = drained \cup {order[turn]} /\ told' = told \cup {order[turn]}
    BY <1>4 DEF DrainFails, WorldRead
  <2>3. phase' \in Phases /\ turn' \in Nat /\ (phase' \in Extracting => turn' \in DOMAIN order)
    BY <2>1, TurnTaken DEF TypeOK, Phases, Extracting
  <2>4. QED
    BY <2>1, <2>2, <2>3 DEF TypeOK, DrainRest, browser, covers
<1>5. CASE ProbeDrained \/ FinalStorage \/ CatalogsRead
  <2>1. order[turn] \in Pages
    BY <1>5 DEF ProbeDrained, FinalStorage, CatalogsRead, TypeOK, Extracting
  <2>2. QED
    BY <1>3, <1>5, <2>1 DEF ProbeDrained, FinalStorage, CatalogsRead, TypeOK, Extracting
<1>6. QED
  BY <1>1, <1>2, <1>4, <1>5 DEF Stopping

LEMMA NextTypeOK ==
    ASSUME TypeOK, IdInv, [Next]_vars PROVE TypeOK' /\ IdInv'
<1>1. Renaming
  BY NextRenames
<1>2. /\ registry' \in [Pages -> Nat] /\ counter' \in Nat
      /\ ids' \in [Pages -> SUBSET (Nat \ {0})]
      /\ IdInv'
  BY <1>1, RenamingKeeps DEF TypeOK
<1>3. CASE Browser
  BY <1>1, <1>2, <1>3, BrowserTypeOK
<1>4. CASE \E p \in Pages : Scanner(p)
  BY <1>2, <1>4, ScannerTypeOK
<1>5. CASE Stopping
  BY <1>2, <1>5, StoppingTypeOK
<1>6. CASE Stop
  BY <1>2, <1>6 DEF Stop, TypeOK, names, covers, browser, Phases, Extracting
<1>7. CASE \E outcome \in {"failed", "interrupted"} : Abort(outcome)
  BY <1>2, <1>7 DEF Abort, TypeOK, names, covers, browser, history, Phases, Extracting
<1>8. CASE UNCHANGED vars
  BY <1>2, <1>8 DEF TypeOK, vars, names, covers, browser, main, history
<1>9. TypeOK'
  BY <1>3, <1>4, <1>5, <1>6, <1>7, <1>8, Zenon DEF Next
<1>10. QED
  BY <1>2, <1>9
-----------------------------------------------------------------------------
LEMMA InitInvariants == Init => IdInv /\ OwnerInv
<1> SUFFICES ASSUME Init PROVE IdInv /\ OwnerInv
  OBVIOUS
<1>1. IdInv
  BY DEF Init, IdInv, UniqueIds
<1>2. OwnerInv
  BY InitialAssumption DEF Init, OwnerInv, Alive, Stages, Early
<1>3. QED
  BY <1>1, <1>2

LEMMA BrowserOwner ==
    ASSUME TypeOK, OwnerInv, Browser PROVE OwnerInv'
<1>1. ASSUME NEW p \in Pages, Appear(p) PROVE OwnerInv'
  <2> SUFFICES ASSUME NEW q \in Pages, Alive(q)', q \notin late'
               PROVE  /\ phase' \in Early =>
                          \/ q \in tracked' /\ life'[q] = "open"
                          \/ q \in closing' /\ q \in cancelled'
                      /\ phase' = "awaiting" => q \in cancelled' /\ q \in swept' \cup closing'
                      /\ phase' \in Early \cup {"awaiting"}
    BY DEF OwnerInv
  <2>1. /\ tracked' = tracked \cup {p} /\ UNCHANGED <<cancelled, closing, phase, swept>>
        /\ life' = [life EXCEPT ![p] = "open"] /\ task' = [task EXCEPT ![p] = "load"]
        /\ late' = IF phase \in Early THEN late ELSE late \cup {p}
    BY <1>1 DEF Appear, main, Early
  <2>2. CASE q = p
    BY <2>1, <2>2 DEF TypeOK, Early
  <2>3. CASE q # p
    <3>1. Alive(q) /\ q \notin late /\ life'[q] = life[q]
      BY <2>1, <2>3 DEF TypeOK, Alive
    <3>2. QED
      BY <2>1, <3>1 DEF OwnerInv
  <2>4. QED
    BY <2>2, <2>3
<1>2. ASSUME NEW p \in Pages, Navigate(p) PROVE OwnerInv'
  BY <1>2 DEF Navigate, OwnerInv, Alive, covers, main
<1>3. ASSUME NEW p \in Pages, PageClosed(p) PROVE OwnerInv'
  <2> SUFFICES ASSUME NEW q \in Pages, Alive(q)', q \notin late'
               PROVE  /\ phase' \in Early =>
                          \/ q \in tracked' /\ life'[q] = "open"
                          \/ q \in closing' /\ q \in cancelled'
                      /\ phase' = "awaiting" => q \in cancelled' /\ q \in swept' \cup closing'
                      /\ phase' \in Early \cup {"awaiting"}
    BY DEF OwnerInv
  <2>1. /\ UNCHANGED <<task, phase, swept, late>> /\ life' = [life EXCEPT ![p] = "closed"]
        /\ \/ /\ p \in tracked
              /\ tracked' = tracked \ {p} /\ cancelled' = cancelled \cup {p}
              /\ closing' = closing \cup {p}
           \/ p \notin tracked /\ UNCHANGED <<tracked, cancelled, closing>>
    BY <1>3 DEF PageClosed, main
  <2>2. Alive(q) /\ q \notin late
    BY <2>1 DEF Alive
  <2>3. CASE q = p
    BY <2>1, <2>2, <2>3 DEF OwnerInv
  <2>4. CASE q # p
    BY <2>1, <2>2, <2>4 DEF OwnerInv, TypeOK
  <2>5. QED
    BY <2>3, <2>4
<1>4. QED
  BY <1>1, <1>2, <1>3 DEF Browser

LEMMA ScannerOwner ==
    ASSUME TypeOK, OwnerInv, NEW p \in Pages, Scanner(p) PROVE OwnerInv'
<1>1. /\ UNCHANGED taskRest /\ Alive(p)
      /\ \E s \in Stages \cup {"done"} : task' = [task EXCEPT ![p] = s]
  BY ScannerShape
<1>2. \A q \in Pages : Alive(q)' => Alive(q)
  BY <1>1 DEF Alive, TypeOK
<1>3. QED
  BY <1>1, <1>2 DEF OwnerInv, taskRest, browser, main

LEMMA StoppingOwner ==
    ASSUME TypeOK, OwnerInv, Stopping PROVE OwnerInv'
<1>1. CASE Sweep
  BY <1>1 DEF Sweep, OwnerInv, Early, Alive, browser, history
<1>2. CASE Clear
  BY <1>2 DEF Clear, OwnerInv, Early, Alive, history
<1>3. CASE ProbeDrained \/ FinalStorage \/ CatalogsRead \/ DrainFails \/ WorldRead
  <2>1. phase \in Extracting /\ UNCHANGED <<task, late>>
    BY <1>3 DEF ProbeDrained, FinalStorage, CatalogsRead, DrainFails, WorldRead, DrainRest,
        covers, Extracting
  <2>2. \A q \in Pages : Alive(q) => q \in late
    BY <2>1 DEF OwnerInv, Extracting, Early
  <2>3. QED
    BY <2>1, <2>2 DEF OwnerInv, Alive
<1>4. QED
  BY <1>1, <1>2, <1>3 DEF Stopping

LEMMA NextOwner ==
    ASSUME TypeOK, OwnerInv, [Next]_vars PROVE OwnerInv'
<1>1. CASE Browser
  BY <1>1, BrowserOwner
<1>2. CASE \E p \in Pages : Scanner(p)
  BY <1>2, ScannerOwner
<1>3. CASE Stopping
  BY <1>3, StoppingOwner
<1>4. CASE Stop
  BY <1>4 DEF Stop, OwnerInv, Alive, browser, covers, Early
<1>5. CASE \E outcome \in {"failed", "interrupted"} : Abort(outcome)
  BY <1>5 DEF Abort, OwnerInv, Alive, browser, covers, history, Early
<1>6. CASE UNCHANGED vars
  BY <1>6 DEF vars, OwnerInv, Alive, browser, covers, main, history
<1>7. QED
  BY <1>1, <1>2, <1>3, <1>4, <1>5, <1>6, Zenon DEF Next

-----------------------------------------------------------------------------
(* What a step keeps of the pages that must leave a trace.                 *)
LEMMA NextTrace ==
    ASSUME TypeOK, OwnerInv, TraceInv, [Next]_vars PROVE TraceInv'
<1>1. ASSUME NEW p \in Pages, Appear(p) PROVE TraceInv'
  BY <1>1 DEF Appear, TraceInv, CoveredLeavesTrace, TypeOK, main
<1>2. ASSUME NEW p \in Pages, Navigate(p) PROVE TraceInv'
  BY <1>2 DEF Navigate, TraceInv, CoveredLeavesTrace, covers
<1>3. ASSUME NEW p \in Pages, PageClosed(p) PROVE TraceInv'
  <2>1. /\ UNCHANGED <<wasInScope, captured, late>> /\ told \subseteq told'
        /\ life' = [life EXCEPT ![p] = "closed"]
        /\ p \in wasInScope \ captured => p \in told'
    BY <1>3 DEF PageClosed
  <2>2. captured' \subseteq told'
    BY <2>1 DEF TraceInv
  <2>3. ASSUME NEW q \in wasInScope \ late, life'[q] = "closed" PROVE q \in told'
    <3>1. CASE q = p
      BY <2>1, <2>2, <2>3, <3>1
    <3>2. CASE q # p
      BY <2>1, <2>3, <3>2 DEF TraceInv, CoveredLeavesTrace, TypeOK
    <3>3. QED
      BY <3>1, <3>2
  <2>4. QED
    BY <2>1, <2>2, <2>3 DEF TraceInv, CoveredLeavesTrace
<1>4. ASSUME NEW p \in Pages, Scanner(p) PROVE TraceInv'
  <2>1. /\ UNCHANGED <<life, late>>
        /\ wasInScope' \in {wasInScope, wasInScope \cup {p}}
        /\ wasInScope' # wasInScope => Running(p)
        /\ captured' \in {captured, captured \cup {p}}
        /\ captured' # captured => p \in told'
        /\ told \subseteq told'
    <3>1. UNCHANGED <<life, late>>
      BY <1>4, ScannerShape DEF taskRest, browser
    <3>2. QED
      BY <1>4, <3>1, ScannerShape
  <2>2. captured' \subseteq told'
    BY <2>1 DEF TraceInv
  <2>3. Running(p) /\ life[p] = "closed" => p \in late
    BY DEF OwnerInv, Running, Alive
  <2>4. QED
    BY <2>1, <2>2, <2>3 DEF TraceInv, CoveredLeavesTrace
<1>5. CASE Stopping
  <2>1. UNCHANGED <<life, late, wasInScope, captured>> /\ told \subseteq told'
    BY <1>5 DEF Stopping, Sweep, Clear, ProbeDrained, FinalStorage, CatalogsRead, DrainFails,
        WorldRead, DrainRest, browser, covers, history
  <2>2. QED
    BY <2>1 DEF TraceInv, CoveredLeavesTrace
<1>6. CASE Stop \/ (\E outcome \in {"failed", "interrupted"} : Abort(outcome)) \/ UNCHANGED vars
  BY <1>6 DEF Stop, Abort, vars, TraceInv, CoveredLeavesTrace, browser, covers, history
<1>7. QED
  BY <1>1, <1>2, <1>3, <1>4, <1>5, <1>6, Zenon DEF Next, Browser

-----------------------------------------------------------------------------
LEMMA InitHeld == Init => HeldInv
<1> SUFFICES ASSUME Init PROVE HeldInv
  OBVIOUS
<1>1. order = <<Initial>> /\ 1 \in DOMAIN order /\ order[1] = Initial
  BY DEF Init
<1>2. QED
  BY <1>1 DEF Init, HeldInv, StopDrains, Extracting

LEMMA BrowserHeld ==
    ASSUME TypeOK, HeldInv, Browser PROVE HeldInv'
<1>1. ASSUME NEW p \in Pages, Appear(p) PROVE HeldInv'
  <2>1. /\ order' = Append(order, p) /\ life[p] = "unborn"
        /\ life' = [life EXCEPT ![p] = "open"]
        /\ \E s \in BOOLEAN : inScope' = [inScope EXCEPT ![p] = s]
        /\ UNCHANGED <<held, drained, phase, turn>>
    BY <1>1 DEF Appear, main
  <2>2. /\ Len(order') = Len(order) + 1 /\ Len(order) \in Nat
        /\ DOMAIN order = 1..Len(order) /\ DOMAIN order' = 1..(Len(order) + 1)
        /\ order'[Len(order) + 1] = p
        /\ \A i \in 1..Len(order) : order'[i] = order[i]
    BY <2>1 DEF TypeOK
  <2>3. \A q \in Pages : life'[q] # "unborn" => \E i \in DOMAIN order' : order'[i] = q
    <3> SUFFICES ASSUME NEW q \in Pages, life'[q] # "unborn"
                 PROVE  \E i \in DOMAIN order' : order'[i] = q
      OBVIOUS
    <3>1. CASE q = p
      BY <2>2, <3>1
    <3>2. CASE q # p
      <4>1. life[q] # "unborn"
        BY <2>1, <3>2 DEF TypeOK
      <4>2. PICK i \in DOMAIN order : order[i] = q
        BY <4>1 DEF HeldInv
      <4>3. QED
        BY <2>2, <4>2
    <3>3. QED
      BY <3>1, <3>2
  <2>4. \A q \in held : q # p /\ Open(q)' /\ inScope'[q]
    BY <2>1 DEF HeldInv, Open, TypeOK
  <2>5. phase' \in Extracting =>
            \A q \in held' \ drained' : \E i \in turn'..Len(order') : order'[i] = q
    <3> SUFFICES ASSUME phase \in Extracting, NEW q \in held \ drained
                 PROVE  \E i \in turn..Len(order') : order'[i] = q
      BY <2>1
    <3>1. PICK i \in turn..Len(order) : order[i] = q
      BY DEF HeldInv
    <3>2. turn \in 1..Len(order)
      BY <2>2 DEF TypeOK
    <3>3. i \in turn..Len(order') /\ order'[i] = q
      BY <2>2, <3>1, <3>2
    <3>4. QED
      BY <3>3
  <2>6. QED
    BY <2>1, <2>3, <2>4, <2>5 DEF HeldInv, StopDrains
<1>2. ASSUME NEW p \in Pages, Navigate(p) PROVE HeldInv'
  <2>1. /\ held' = held \ {p} /\ UNCHANGED <<life, order, phase, turn, drained>>
        /\ inScope' = [inScope EXCEPT ![p] = ~@]
    BY <1>2 DEF Navigate, covers, main
  <2>2. \A q \in held' : Open(q)' /\ inScope'[q]
    BY <2>1 DEF HeldInv, Open, TypeOK
  <2>3. QED
    BY <2>1, <2>2 DEF HeldInv, StopDrains
<1>3. ASSUME NEW p \in Pages, PageClosed(p) PROVE HeldInv'
  <2>1. /\ held' = held \ {p} /\ UNCHANGED <<inScope, order, phase, turn, drained>>
        /\ life' = [life EXCEPT ![p] = "closed"] /\ life[p] = "open"
    BY <1>3 DEF PageClosed, main, Open
  <2>2. \A q \in held' : Open(q)' /\ inScope'[q]
    BY <2>1 DEF HeldInv, Open, TypeOK
  <2>3. \A q \in Pages : life'[q] # "unborn" => life[q] # "unborn"
    BY <2>1 DEF TypeOK
  <2>4. QED
    BY <2>1, <2>2, <2>3 DEF HeldInv, StopDrains
<1>4. QED
  BY <1>1, <1>2, <1>3 DEF Browser

(* Going on from a place keeps every held page that is not drained ahead.  *)
LEMMA TurnHeld ==
    ASSUME TypeOK, HeldInv, NEW from \in Nat \ {0}, NextTurn(from),
           UNCHANGED <<life, inScope, order, held>>,
           \A p \in held \ drained' : \E i \in from..Len(order) : order[i] = p
    PROVE  HeldInv'
<1>1. \/ /\ phase' = "stopped" /\ turn' = from
         /\ \A i \in from..Len(order) : ~(Open(order[i]) /\ inScope[order[i]])
      \/ /\ phase' = "drain" /\ turn' \in from..Len(order)
         /\ \A i \in from..Len(order) :
               Open(order[i]) /\ inScope[order[i]] => turn' <= i
  BY TurnTaken DEF TypeOK
<1>2. \A p \in held : Open(p) /\ inScope[p]
  BY DEF HeldInv
<1>3. CASE phase' = "stopped"
  <2>1. held \subseteq drained'
    BY <1>1, <1>2, <1>3
  <2>2. QED
    BY <1>3, <2>1 DEF HeldInv, StopDrains, Extracting, Open
<1>4. CASE phase' = "drain"
  <2>1. \A p \in held \ drained' : \E i \in turn'..Len(order) : order[i] = p
    <3> SUFFICES ASSUME NEW p \in held \ drained'
                 PROVE  \E i \in turn'..Len(order) : order[i] = p
      OBVIOUS
    <3>1. PICK i \in from..Len(order) : order[i] = p
      OBVIOUS
    <3>2. turn' <= i
      BY <1>1, <1>2, <1>4, <3>1
    <3>3. turn' \in Nat /\ i \in turn'..Len(order)
      BY <1>1, <1>4, <3>1, <3>2
    <3>4. QED
      BY <3>1, <3>3
  <2>2. QED
    BY <1>4, <2>1 DEF HeldInv, StopDrains, Extracting, Open
<1>5. QED
  BY <1>1, <1>3, <1>4

LEMMA StoppingHeld ==
    ASSUME TypeOK, HeldInv, Stopping PROVE HeldInv'
<1>1. CASE Sweep
  BY <1>1 DEF Sweep, HeldInv, StopDrains, Open, Extracting, browser, history
<1>2. CASE Clear
  <2>1. /\ NextTurn(1) /\ UNCHANGED <<life, inScope, order, held, drained>>
    BY <1>2 DEF Clear, browser, history
  <2>2. \A p \in held \ drained' : \E i \in 1..Len(order) : order[i] = p
    <3>1. \A p \in held : life[p] # "unborn" /\ p \in Pages
      BY DEF HeldInv, Open, TypeOK
    <3>2. DOMAIN order = 1..Len(order)
      BY DEF TypeOK
    <3>3. QED
      BY <3>1, <3>2 DEF HeldInv
  <2>3. QED
    BY <2>1, <2>2, TurnHeld
<1>3. CASE ProbeDrained \/ FinalStorage \/ CatalogsRead
  BY <1>3 DEF ProbeDrained, FinalStorage, CatalogsRead, DrainRest, HeldInv, StopDrains, Open,
      Extracting, browser, covers
<1>4. CASE DrainFails \/ WorldRead
  <2>1. /\ phase \in Extracting /\ NextTurn(turn + 1)
        /\ UNCHANGED <<life, inScope, order, held>>
        /\ drained' = drained \cup {order[turn]}
    BY <1>4 DEF DrainFails, WorldRead, DrainRest, Extracting, browser, covers
  <2>2. turn \in 1..Len(order) /\ Len(order) \in Nat
    BY <2>1 DEF TypeOK
  <2>3. ASSUME NEW p \in held \ drained' PROVE \E i \in (turn + 1)..Len(order) : order[i] = p
    <3>1. PICK i \in turn..Len(order) : order[i] = p
      BY <2>1, <2>3 DEF HeldInv
    <3>2. i # turn
      BY <2>1, <2>3, <3>1
    <3>3. i \in (turn + 1)..Len(order)
      BY <2>2, <3>1, <3>2
    <3>4. QED
      BY <3>1, <3>3
  <2>4. QED
    BY <2>1, <2>2, <2>3, TurnHeld
<1>5. QED
  BY <1>1, <1>2, <1>3, <1>4 DEF Stopping

LEMMA NextHeld ==
    ASSUME TypeOK, HeldInv, [Next]_vars PROVE HeldInv'
<1>1. CASE Browser
  BY <1>1, BrowserHeld
<1>2. CASE \E p \in Pages : Scanner(p)
  <2>1. UNCHANGED taskRest
    BY <1>2, ScannerShape
  <2>2. QED
    BY <2>1 DEF taskRest, HeldInv, StopDrains, Open, browser, main
<1>3. CASE Stopping
  BY <1>3, StoppingHeld
<1>4. CASE Stop
  BY <1>4 DEF Stop, HeldInv, StopDrains, Open, Extracting, browser, covers
<1>5. CASE \E outcome \in {"failed", "interrupted"} : Abort(outcome)
  BY <1>5 DEF Abort, HeldInv, StopDrains, Open, Extracting, browser, covers, history
<1>6. CASE UNCHANGED vars
  BY <1>6 DEF vars, HeldInv, StopDrains, Open, browser, covers, main, history
<1>7. QED
  BY <1>1, <1>2, <1>3, <1>4, <1>5, <1>6, Zenon DEF Next

-----------------------------------------------------------------------------
IInv == TypeOK /\ IdInv /\ OwnerInv /\ TraceInv /\ HeldInv

(* The inductive invariant: types, ids, who looks after each task, what    *)
(* has been recorded of a page, and what stop has still to drain.          *)
THEOREM PageInvariance == Spec => []IInv
<1>1. Init => IInv
  <2>1. Init => TraceInv
    BY DEF Init, TraceInv, CoveredLeavesTrace
  <2>2. QED
    BY <2>1, InitTypeOK, InitInvariants, InitHeld DEF IInv
<1>2. IInv /\ [Next]_vars => IInv'
  BY NextTypeOK, NextOwner, NextTrace, NextHeld DEF IInv
<1>3. QED
  BY <1>1, <1>2, PTL DEF Spec

(* Type correctness of page coverage.                                      *)
THEOREM PageTypeCorrect == Spec => []TypeOK
<1>1. IInv => TypeOK
  BY DEF IInv
<1>2. QED
  BY <1>1, PageInvariance, PTL

(* No two pages are ever given the same id, also by the handler of a close *)
(* that asks for one again (identity.py:7-10).                             *)
THEOREM UniqueIdsTheorem == Spec => []UniqueIds
<1>1. IInv => UniqueIds
  BY DEF IInv, IdInv
<1>2. QED
  BY <1>1, PageInvariance, PTL

(* A page that has closed is scanned no more, unless it appeared once stop *)
(* had cancelled the scanners (camoufox_investigator.py:1635-1636).        *)
THEOREM DeadPageTheorem == Spec => []DeadPageNotScanned
<1>1. IInv => DeadPageNotScanned
  BY DEF IInv, OwnerInv, DeadPageNotScanned, Running, Alive
<1>2. QED
  BY <1>1, PageInvariance, PTL

(* Once stop extracts pages no scanner is alive but those of pages that    *)
(* appeared since (camoufox_investigator.py, PageCoverage.stop).           *)
THEOREM ScannersEndedTheorem == Spec => []ScannersEnded
<1>1. IInv => ScannersEnded
  BY DEF IInv, OwnerInv, ScannersEnded, Early, Extracting
<1>2. QED
  BY <1>1, PageInvariance, PTL

(* A page covered while in scope leaves a trace in the log when it closes  *)
(* (the gap of PageCoverage._on_close).                                    *)
THEOREM TraceTheorem == Spec => []CoveredLeavesTrace
<1>1. IInv => CoveredLeavesTrace
  BY DEF IInv, TraceInv
<1>2. QED
  BY <1>1, PageInvariance, PTL

(* stop extracts every page that stays open and in scope until it ends,    *)
(* however many pages there are and appear meanwhile.                      *)
THEOREM StopDrainsTheorem == Spec => []StopDrains
<1>1. IInv => StopDrains
  BY DEF IInv, HeldInv
<1>2. QED
  BY <1>1, PageInvariance, PTL
=============================================================================
