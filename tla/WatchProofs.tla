----------------------------- MODULE WatchProofs -----------------------------
(* Proofs about Watch, for any number of saves and any versions that do not   *)
(* compile: one process at a time, none without its binary, and nothing left  *)
(* behind.  The invariant says which binary is whose while the loop moves.    *)
EXTENDS Watch, TLAPS

Phases == {"first", "build", "compile", "built", "stopping", "swap", "loop", "debounce", "leave",
           "leaving", "exit", "gone"}
Children == [ver : 0..MaxEdits, state : {"none", "running", "hung", "exited"}]

TypeOK ==
    /\ source \in 0..MaxEdits /\ prev \in 0..MaxEdits /\ quiet \in BOOLEAN /\ signal \in BOOLEAN
    /\ pc \in Phases /\ seq \in 0..MaxSeq /\ curBin \in 0..MaxSeq /\ proc \in 0..MaxSeq
    /\ bins \subseteq 1..MaxSeq /\ child \in [1..MaxSeq -> Children]

\* A build follows a change: the binaries are numbered within MaxSeq.
Numbered ==
    /\ prev <= source
    /\ pc = "first" => seq = 0
    /\ pc # "first" => seq \in 1..(prev + 1)
    /\ pc = "debounce" => prev < source

\* The binary that is built is not the current one; the process is that of the current one, and its
\* binary is there; when the process has been stopped there is none.
Owned ==
    /\ pc \in {"first", "build", "compile"} => curBin < seq \/ (seq = 0 /\ curBin = 0)
    /\ pc \in {"built", "stopping", "swap"} => curBin < seq /\ seq \in bins
    /\ curBin <= seq
    /\ bins \subseteq IF pc \in {"built", "stopping", "swap"} THEN {curBin, seq} ELSE {curBin}
    /\ pc = "gone" => bins = {}
    /\ proc \in {0, curBin} /\ (proc # 0 /\ pc # "gone" => proc \in bins)
    /\ pc \in {"first", "swap", "exit", "gone"} => proc = 0
    /\ pc \in {"stopping", "leaving"} => proc # 0
    /\ Running \subseteq {proc}

IInv == TypeOK /\ Numbered /\ Owned

LEMMA InitInv == Init => IInv
<1> SUFFICES ASSUME Init PROVE IInv
    OBVIOUS
<1>1. TypeOK
  <2>1. MaxEdits \in Nat /\ MaxSeq \in Nat
    BY WatchAssumption DEF MaxSeq
  <2>2. child \in [1..MaxSeq -> Children]
    BY <2>1 DEF Init, Children
  <2>3. 0 \in 0..MaxEdits /\ 0 \in 0..MaxSeq
    BY <2>1
  <2> QED
    BY <2>2, <2>3 DEF Init, TypeOK, Phases
<1>2. Running = {}
    BY DEF Init, Running
<1>3. Numbered /\ Owned
    BY <1>2 DEF Init, Numbered, Owned
<1> QED
    BY <1>1, <1>3 DEF IInv

LEMMA NextInv == IInv /\ [Next]_vars => IInv'
<1> SUFFICES ASSUME IInv, [Next]_vars PROVE IInv'
    OBVIOUS
<1> USE WatchAssumption DEF IInv, TypeOK, Numbered, Owned, Phases, MaxSeq, editor, files
<1>a. ASSUME UNCHANGED <<child, proc>> PROVE Running' \subseteq {proc'}
    BY <1>a DEF Running
<1>1. CASE Edit
    BY <1>1, <1>a DEF Edit
<1>2. CASE Settle \/ Interrupt
    BY <1>2, <1>a DEF Settle, Interrupt
<1>3. ASSUME NEW b \in 1..MaxSeq, NEW state \in {"exited", "hung"}, ChildChanges(b, state) PROVE IInv'
  <2>1. child' \in [1..MaxSeq -> Children]
    BY <1>3 DEF ChildChanges, Children
  <2>2. Running' \subseteq Running
    BY <1>3 DEF ChildChanges, Running
  <2> QED
    BY <1>3, <2>1, <2>2 DEF ChildChanges
<1>4. CASE First
    BY <1>4, <1>a DEF First, StartBuild
<1>14. CASE Rebuild
    BY <1>14, <1>a DEF Rebuild, StartBuild
<1>5. CASE BuildReads
  <2>1. child' \in [1..MaxSeq -> Children]
    BY <1>5 DEF BuildReads, Children
  <2>2. Running' = Running
    BY <1>5 DEF BuildReads, Running
  <2> QED
    BY <1>5, <2>1, <2>2 DEF BuildReads
<1>6. CASE BuildSucceeds
    BY <1>6, <1>a DEF BuildSucceeds
<1>7. CASE BuildFails
    BY <1>7, <1>a DEF BuildFails
<1>8. CASE Stop("built", "stopping", "swap") \/ Stop("leave", "leaving", "exit")
    BY <1>8, <1>a DEF Stop
<1>9. CASE Stopped("stopping", "swap") \/ Stopped("leaving", "exit")
  <2>1. proc \in 1..MaxSeq /\ child' = [child EXCEPT ![proc].state = "exited"]
    BY <1>9 DEF Stopped
  <2>2. child' \in [1..MaxSeq -> Children]
    BY <2>1 DEF Children
  <2>3. Running' = {}
    BY <2>1 DEF Running
  <2> QED
    BY <1>9, <2>2, <2>3 DEF Stopped
<1>10. CASE Swap
  <2>1. /\ proc = 0 /\ seq \in 1..MaxSeq
        /\ \/ proc' = seq /\ child' = [child EXCEPT ![seq].state = "running"]
           \/ UNCHANGED <<proc, child>>
    BY <1>10 DEF Swap
  <2>2. child' \in [1..MaxSeq -> Children]
    BY <2>1 DEF Children
  <2>3. Running' \subseteq {proc'}
    BY <2>1 DEF Running
  <2> QED
    BY <1>10, <2>1, <2>2, <2>3 DEF Swap
<1>11. CASE Tick
    BY <1>11, <1>a DEF Tick
<1>15. CASE TakeSignal
    BY <1>15, <1>a DEF TakeSignal
<1>12. CASE Leave
    BY <1>12, <1>a DEF Leave
<1>13. CASE Over \/ UNCHANGED vars
    BY <1>13, <1>a DEF Over, vars
<1> QED
    BY <1>1, <1>2, <1>3, <1>4, <1>5, <1>6, <1>7, <1>8, <1>9, <1>10, <1>11, <1>12, <1>13, <1>14, <1>15
    DEF Next, Loop, Environment, Swapping, Leaving

\* Whatever the editor, the process and the terminal do, at most one process runs, and the watcher
\* leaves neither a process nor a binary (run.go 83-138).
THEOREM OneProcessAlways == Spec => []OneProcess
<1>1. IInv => OneProcess
  <2> SUFFICES ASSUME IInv PROVE OneProcess
    OBVIOUS
  <2>1. 0 \notin Running
    BY DEF Running
  <2> QED
    BY <2>1 DEF IInv, Owned, OneProcess
<1> QED
    BY InitInv, NextInv, <1>1, PTL DEF Spec

\* The old process is asked to stop only once the binary that replaces it is there, and a process
\* that runs has its binary (run.go 98-122).
THEOREM ReplacedOnlyByGoodAlways == Spec => []ReplacedOnlyByGood
<1>1. IInv => ReplacedOnlyByGood
    BY DEF IInv, TypeOK, Owned, ReplacedOnlyByGood, Running, Phases
<1> QED
    BY InitInv, NextInv, <1>1, PTL DEF Spec
=============================================================================
