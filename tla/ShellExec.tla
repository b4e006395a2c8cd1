------------------------------ MODULE ShellExec ------------------------------
(***************************************************************************)
(* exec_with_timeout of tools/tool_shell.c: the agent thread runs a command*)
(* in a child, reads its output from a pipe without blocking, and ends a   *)
(* child that takes longer than Timeout, first asking, then by force.      *)
(*                                                                         *)
(* The child is a session of two: the shell itself, the only process that  *)
(* can be waited for, and a helper it may leave behind.  Each may write,   *)
(* close its end of the pipe, ignore SIGTERM, and end at any moment.  The  *)
(* processes are the operating system's: what they do is not in the code.  *)
(***************************************************************************)
EXTENDS Naturals

CONSTANTS
  MaxOutput,   (* max_read                                                  *)
  PipeSize,    (* bound on what the pipe holds unread                       *)
  Timeout,     (* TIMEOUT_SECONDS                                           *)
  Grace,       (* GRACE_SECONDS                                             *)
  MaxCalls     (* bound on the calls of the tool                            *)

Processes == {"shell", "helper"}

VARIABLES
  place,       (* where exec_with_timeout is                                *)
  elapsed,     (* time since start, or since grace_start                    *)
  total,       (* bytes read                                                *)
  life,        (* of each process: "none", "runs", "zombie" or "gone"       *)
  writes,      (* the processes that have the pipe open for writing         *)
  stubborn,    (* the processes that ignore SIGTERM                         *)
  pipe,        (* bytes unread in the pipe                                  *)
  ending,      (* how the last call ended                                   *)
  calls

child == <<life, writes, stubborn, pipe>>
vars == <<place, elapsed, total, child, ending, calls>>

Init ==
  /\ place = "idle" /\ elapsed = 0 /\ total = 0
  /\ life = [p \in Processes |-> "none"] /\ writes = {} /\ stubborn = {} /\ pipe = 0
  /\ ending = "none" /\ calls = 0

Runs(p) == life[p] = "runs"
(* A shell that ends is a zombie until waited for; a helper is init's child. *)
Ended(p) == IF p = "shell" THEN "zombie" ELSE "gone"
-----------------------------------------------------------------------------
(* fork and exec; a pipe or fork that fails returns at once and changes nothing. *)
Call ==
  /\ place = "idle" /\ calls < MaxCalls
  /\ place' = "time" /\ elapsed' = 0 /\ total' = 0
  /\ life' = [p \in Processes |-> IF p = "shell" THEN "runs" ELSE "none"]
  /\ writes' = {"shell"} /\ pipe' = 0
  /\ stubborn' \in SUBSET Processes
  /\ calls' = calls + 1
  /\ UNCHANGED ending

(* What the processes do while the caller reads or waits. *)
Fork ==
  /\ place # "idle" /\ Runs("shell") /\ life["helper"] = "none"
  /\ life' = [life EXCEPT !["helper"] = "runs"]
  /\ writes' = IF "shell" \in writes THEN writes \cup {"helper"} ELSE writes
  /\ UNCHANGED <<place, elapsed, total, stubborn, pipe, ending, calls>>
Write(p) ==
  /\ place # "idle" /\ Runs(p) /\ p \in writes /\ pipe < PipeSize
  /\ pipe' = pipe + 1
  /\ UNCHANGED <<place, elapsed, total, life, writes, stubborn, ending, calls>>
CloseOutput(p) ==
  /\ place # "idle" /\ Runs(p) /\ p \in writes
  /\ writes' = writes \ {p}
  /\ UNCHANGED <<place, elapsed, total, life, stubborn, pipe, ending, calls>>
Exit(p) ==
  /\ place # "idle" /\ Runs(p)
  /\ life' = [life EXCEPT ![p] = Ended(p)]
  /\ writes' = writes \ {p}
  /\ UNCHANGED <<place, elapsed, total, stubborn, pipe, ending, calls>>
-----------------------------------------------------------------------------
Return(how) == place' = "idle" /\ ending' = how

Tick ==
  /\ \/ place \in {"time", "read", "wait"} /\ elapsed < Timeout
     \/ place = "grace" /\ elapsed < Grace
  /\ elapsed' = elapsed + 1
  /\ UNCHANGED <<place, total, child, ending, calls>>

(* The head of the loop: the time is looked at after every read. *)
Time ==
  /\ place = "time"
  /\ place' = IF elapsed >= Timeout THEN "term" ELSE "read"
  /\ UNCHANGED <<elapsed, total, child, ending, calls>>

ReadUnbounded ==                         (* mutant *)
  /\ place = "read" /\ total < MaxOutput
  /\ \E n \in 1..pipe : total' = total + n /\ pipe' = pipe - n
  /\ place' = "time"
  /\ UNCHANGED <<elapsed, life, writes, stubborn, ending, calls>>
(* read: some bytes, and the loop goes on; nothing yet, or the buffer is full
   and nothing is read: see whether the shell has ended; or the end of the
   output, which ends the call without a wait for the shell.                  *)
ReadSome ==
  /\ place = "read" /\ total < MaxOutput
  /\ \E n \in 1..pipe :
       /\ n <= MaxOutput - total
       /\ total' = total + n /\ pipe' = pipe - n
  /\ place' = "time"
  /\ UNCHANGED <<elapsed, life, writes, stubborn, ending, calls>>
ReadNothing ==
  /\ place = "read"
  /\ total = MaxOutput \/ (pipe = 0 /\ writes # {})
  /\ place' = "wait"
  /\ UNCHANGED <<elapsed, total, child, ending, calls>>
ReadEnd ==
  /\ place = "read" /\ total < MaxOutput
  /\ pipe = 0 /\ writes = {}
  /\ Return("end")
  /\ UNCHANGED <<elapsed, total, child, calls>>

(* waitpid with WNOHANG. *)
Reap(next) ==
  /\ life["shell"] = "zombie"
  /\ life' = [life EXCEPT !["shell"] = "gone"]
  /\ place' = next
WaitReaps ==
  /\ place = "wait"
  /\ Reap("drain")
  /\ UNCHANGED <<elapsed, total, writes, stubborn, pipe, ending, calls>>
WaitSleeps ==
  /\ place = "wait" /\ Runs("shell")
  /\ place' = "time"
  /\ UNCHANGED <<elapsed, total, child, ending, calls>>
(* ... and what is left in the pipe is read, as long as there is some. *)
Drain ==
  /\ place = "drain"
  /\ IF total < MaxOutput /\ pipe > 0
     THEN /\ total' = total + 1 /\ pipe' = pipe - 1
          /\ UNCHANGED <<place, ending>>
     ELSE Return("status") /\ UNCHANGED <<total, pipe>>
  /\ UNCHANGED <<elapsed, life, writes, stubborn, calls>>
-----------------------------------------------------------------------------
(* kill(-pid, sig) reaches both; those it ends are gone at once. *)
Signal(who) ==
  /\ life' = [p \in Processes |-> IF p \in who /\ Runs(p) THEN Ended(p) ELSE life[p]]
  /\ writes' = writes \ who

Term ==
  /\ place = "term"
  /\ Signal(Processes \ stubborn)
  /\ place' = "grace" /\ elapsed' = 0
  /\ UNCHANGED <<total, stubborn, pipe, ending, calls>>
GraceReaps ==
  /\ place = "grace"
  /\ Reap("asked")
  /\ UNCHANGED <<elapsed, total, writes, stubborn, pipe, ending, calls>>
KillShellOnly ==                         (* mutant: pid, not the group *)
  /\ place = "grace" /\ Runs("shell") /\ elapsed >= Grace
  /\ Signal({"shell"})
  /\ place' = "kill"
  /\ UNCHANGED <<elapsed, total, stubborn, pipe, ending, calls>>
NoKill ==                                (* mutant *)
  /\ place = "grace" /\ Runs("shell") /\ elapsed >= Grace
  /\ place' = "kill"
  /\ UNCHANGED <<elapsed, total, child, ending, calls>>
Kill ==
  /\ place = "grace" /\ Runs("shell") /\ elapsed >= Grace
  /\ Signal(Processes)
  /\ place' = "kill"
  /\ UNCHANGED <<elapsed, total, stubborn, pipe, ending, calls>>
(* The last waitpid blocks. *)
KillReaps ==
  /\ place = "kill"
  /\ Reap("forced")
  /\ UNCHANGED <<elapsed, total, writes, stubborn, pipe, ending, calls>>
Late ==
  /\ place \in {"asked", "forced"}
  /\ Return(place)
  /\ UNCHANGED <<elapsed, total, child, calls>>

Caller == Time \/ ReadSome \/ ReadNothing \/ ReadEnd \/ WaitReaps \/ WaitSleeps \/ Drain
            \/ Term \/ GraceReaps \/ Kill \/ KillReaps \/ Late
System == Fork \/ \E p \in Processes : Write(p) \/ CloseOutput(p) \/ Exit(p)
Next == Call \/ Caller \/ System \/ Tick

(* The caller's thread runs and time passes; the processes owe nothing. *)
Fairness == WF_vars(Caller) /\ WF_vars(Tick)
Spec == Init /\ [][Next]_vars /\ Fairness
-----------------------------------------------------------------------------
TypeOK ==
  /\ place \in {"idle", "time", "read", "wait", "drain", "term", "grace", "kill",
               "asked", "forced"}
  /\ elapsed \in 0..(Timeout + Grace) /\ total \in 0..MaxOutput
  /\ life \in [Processes -> {"none", "runs", "zombie", "gone"}]
  /\ writes \subseteq Processes /\ stubborn \subseteq Processes /\ pipe \in 0..PipeSize
  /\ ending \in {"none", "end", "status", "asked", "forced"}
  /\ calls \in 0..MaxCalls

(* The agent thread always comes back from a command, whatever the command
   does: writes without end, closes its output, ignores SIGTERM, leaves a
   helper that keeps the pipe open.                                           *)
CommandReturns == []<>(place = "idle")

(* What a call leaves behind: a shell that ended by its status or by time-out
   has been waited for, and only a shell whose output ended first has not; a
   command that had to be killed leaves nothing running.                       *)
Leftovers ==
  place = "idle" =>
    /\ ending \in {"status", "asked", "forced"} => life["shell"] = "gone"
    /\ ending = "forced" => \A p \in Processes : ~Runs(p)
    /\ ending = "end" => writes = {} /\ pipe = 0
=============================================================================
