-------------------------------- MODULE Watch --------------------------------
(* bast run --watch (cmd/bast/run.go): one loop that polls the sources,       *)
(* builds them to a fresh temporary binary and swaps the running process,     *)
(* beside an editor that saves at any time, a process that may exit or hang   *)
(* and an interrupt from the terminal.                                        *)
(*                                                                            *)
(* The sources are abstracted to a version number, some versions compile; a   *)
(* build takes them as they are at one moment between its start and its end.  *)
EXTENDS Integers, FiniteSets

CONSTANTS MaxEdits, \* bound: saves by the editor
          Broken    \* the versions that do not compile

ASSUME WatchAssumption == MaxEdits \in Nat /\ Broken \subseteq 0..MaxEdits

VARIABLES source,   \* the version of the sources
          quiet,    \* the editor saves no more
          prev,     \* the version of the snapshot `prev'
          pc,       \* where watchAndRun is
          seq,      \* the number of the latest temporary binary
          bins,     \* the temporary binaries on disk
          curBin,   \* curBin, 0 if empty
          proc,     \* the process of proc, 0 if nil
          child,    \* for every binary: its version, and what became of its process
          signal    \* an interrupt is pending in sig

vars == <<source, quiet, prev, pc, seq, bins, curBin, proc, child, signal>>
editor == <<source, quiet>>
files == <<bins, curBin>>

\* A build follows a change, so there are no more binaries than this.
MaxSeq == MaxEdits + 1

Running == {b \in 1..MaxSeq : child[b].state \in {"running", "hung"}}

Init ==
    /\ source = 0 /\ quiet = FALSE
    /\ prev = 0 /\ pc = "first"
    /\ seq = 0 /\ bins = {} /\ curBin = 0
    /\ proc = 0 /\ child = [b \in 1..MaxSeq |-> [ver |-> 0, state |-> "none"]]
    /\ signal = FALSE

-----------------------------------------------------------------------------
(* The environment.                                                           *)

Edit ==
    /\ ~quiet /\ source < MaxEdits
    /\ source' = source + 1
    /\ UNCHANGED <<quiet, prev, pc, seq, files, proc, child, signal>>

Settle ==
    /\ ~quiet /\ quiet' = TRUE
    /\ UNCHANGED <<source, prev, pc, seq, files, proc, child, signal>>

Interrupt ==
    /\ ~signal /\ pc # "gone"
    /\ signal' = TRUE
    /\ UNCHANGED <<editor, prev, pc, seq, files, proc, child>>

\* A process exits by itself, or stops reacting to an interrupt.
ChildChanges(b, state) ==
    /\ child[b].state = "running"
    /\ child' = [child EXCEPT ![b].state = state]
    /\ UNCHANGED <<editor, prev, pc, seq, files, proc, signal>>

-----------------------------------------------------------------------------
(* The loop.                                                                  *)

StartBuild == seq' = seq + 1 /\ pc' = "build"

\* The first snapshot; nextBin and the start of the build.
First ==
    /\ pc = "first"
    /\ prev' = source
    /\ StartBuild
    /\ UNCHANGED <<editor, files, proc, child, signal>>

\* go build has read the sources; then it writes the binary or fails.
BuildReads ==
    /\ pc = "build"
    /\ child' = [child EXCEPT ![seq].ver = source]
    /\ pc' = "compile"
    /\ UNCHANGED <<editor, prev, seq, files, proc, signal>>

BuildSucceeds ==
    /\ pc = "compile" /\ child[seq].ver \notin Broken
    /\ bins' = bins \cup {seq}
    /\ pc' = "built"
    /\ UNCHANGED <<editor, prev, seq, curBin, proc, child, signal>>

\* Mutant: a failed build goes on to stop the old process.
BuildFailsOn ==
    /\ pc = "compile" /\ child[seq].ver \in Broken
    /\ pc' = "built"
    /\ UNCHANGED <<editor, prev, seq, files, proc, child, signal>>

\* The old process keeps running.  An interrupt from the terminal reaches go build too.
BuildFails ==
    /\ pc = "compile" /\ (child[seq].ver \in Broken \/ signal)
    /\ pc' = "loop"
    /\ UNCHANGED <<editor, prev, seq, files, proc, child, signal>>

\* Mutant: the new process starts beside the old one.
StopNothing(from, waiting, done) ==
    /\ pc = from
    /\ pc' = done
    /\ UNCHANGED <<editor, prev, seq, files, proc, child, signal>>

\* stop: nothing to do without a process; otherwise it is asked to exit.
Stop(from, waiting, done) ==
    /\ pc = from
    /\ pc' = IF proc = 0 THEN done ELSE waiting
    /\ UNCHANGED <<editor, prev, seq, files, proc, child, signal>>

\* Mutant: stop waits for as long as the process takes.
StoppedPolitely(waiting, done) ==
    /\ pc = waiting /\ child[proc].state # "hung"
    /\ child' = [child EXCEPT ![proc].state = "exited"]
    /\ proc' = 0 /\ pc' = done
    /\ UNCHANGED <<editor, prev, seq, files, signal>>

\* stop's select: the process has exited, or is killed when stopGrace is over.  One that reacts to
\* the interrupt exits.
Stopped(waiting, done) ==
    /\ pc = waiting
    /\ child' = [child EXCEPT ![proc].state = "exited"]
    /\ proc' = 0 /\ pc' = done
    /\ UNCHANGED <<editor, prev, seq, files, signal>>

\* Mutant: the old binary stays.
SwapKeepsOld ==
    /\ pc = "swap"
    /\ curBin' = seq
    /\ proc' = seq /\ child' = [child EXCEPT ![seq].state = "running"]
    /\ pc' = "loop"
    /\ UNCHANGED <<editor, prev, seq, bins, signal>>

\* Mutant: the snapshot is taken again when the new process runs.
SwapThenSnapshot ==
    /\ pc = "swap"
    /\ bins' = bins \ {curBin} /\ curBin' = seq
    /\ proc' = seq /\ child' = [child EXCEPT ![seq].state = "running"]
    /\ prev' = source
    /\ pc' = "loop"
    /\ UNCHANGED <<editor, seq, signal>>

\* The rest of buildAndSwap: the old binary goes, the new one starts, or fails to.
Swap ==
    /\ pc = "swap"
    /\ bins' = bins \ {curBin} /\ curBin' = seq
    /\ \/ proc' = seq /\ child' = [child EXCEPT ![seq].state = "running"]
       \/ UNCHANGED <<proc, child>>
    /\ pc' = "loop"
    /\ UNCHANGED <<editor, prev, seq, signal>>

Tick ==
    /\ pc = "loop" /\ source # prev
    /\ pc' = "debounce"
    /\ UNCHANGED <<editor, prev, seq, files, proc, child, signal>>

\* After the debounce the snapshot is taken, then the build starts: a later save is seen by a later tick.
Rebuild ==
    /\ pc = "debounce"
    /\ prev' = source
    /\ StartBuild
    /\ UNCHANGED <<editor, files, proc, child, signal>>

TakeSignal ==
    /\ pc = "loop" /\ signal
    /\ signal' = FALSE /\ pc' = "leave"
    /\ UNCHANGED <<editor, prev, seq, files, proc, child>>

\* The deferred os.Remove.
Leave ==
    /\ pc = "exit"
    /\ bins' = bins \ {curBin}
    /\ pc' = "gone"
    /\ UNCHANGED <<editor, prev, seq, curBin, proc, child, signal>>

Over == pc = "gone" /\ UNCHANGED vars

-----------------------------------------------------------------------------
Swapping == Stop("built", "stopping", "swap") \/ Stopped("stopping", "swap") \/ Swap
Leaving == Stop("leave", "leaving", "exit") \/ Stopped("leaving", "exit") \/ Leave
Loop == First \/ BuildReads \/ BuildSucceeds \/ BuildFails \/ Swapping \/ Tick \/ Rebuild \/ TakeSignal \/ Leaving
Environment == \/ Edit \/ Settle \/ Interrupt
               \/ \E b \in 1..MaxSeq, state \in {"exited", "hung"} : ChildChanges(b, state)

Next == Loop \/ Environment \/ Over
Spec == Init /\ [][Next]_vars

\* go build ends, stop waits stopGrace at most, and a select with a tick and a signal both ready takes
\* either with the same probability.  The editor, the process and the terminal owe nothing.
Fairness == WF_vars(Loop) /\ SF_vars(TakeSignal)
FairSpec == Spec /\ Fairness

-----------------------------------------------------------------------------
\* Two processes never run at once: they would fight for the port.  The one that runs is proc; when the
\* tool has ended nothing is left behind, no process and no temporary binary.
OneProcess ==
    /\ Running \subseteq {proc}
    /\ pc = "gone" => Running = {} /\ bins = {}

\* "a broken save keeps the last good process serving" (cmd/bast/run.go:57-58): the old process is
\* asked to stop only once the binary that replaces it is there; and none runs without its binary.
ReplacedOnlyByGood ==
    /\ pc \in {"stopping", "swap"} => seq \in bins
    /\ Running \subseteq bins

\* "rebuilds and restarts on any change" (cmd/bast/run.go:16-17): once the editor is done, a version
\* that compiles gets to run, whenever in a build or a restart the last save came.
LatestRuns ==
    quiet ~> pc = "gone" \/ source \in Broken \/ (curBin # 0 /\ child[curBin].ver = source)

\* An interrupt ends the watcher, even with a process that ignores it.
InterruptEnds == signal ~> pc = "gone"
=============================================================================
