-------------------------------- MODULE Cron --------------------------------
(***************************************************************************)
(* cron/cron_service.c: the table of scheduled jobs, the cron thread that  *)
(* fires them, the agent thread that adds and removes them through its     *)
(* tools (tool_cron.c), and the JSON file they are saved in.               *)
(*                                                                         *)
(* s_cron_mutex is never held across an action: a step that runs under the *)
(* mutex is one action, and a step boundary is where the code releases it  *)
(* or touches the disk.  The cron thread releases it around each push and  *)
(* keeps a pointer into s_jobs across the gap; cron_save takes its         *)
(* snapshot under the mutex and writes the file without it.                *)
(***************************************************************************)
EXTENDS Naturals, Sequences, SequencesExt, FiniteSetsExt, Selection

CONSTANTS
  MaxJobs,      (* CRON_MAX_JOBS                                            *)
  Intervals,    (* the interval_sec of interval jobs; 0 is a once job       *)
  Delays,       (* how far ahead once jobs are scheduled                    *)
  MaxId,        (* bound on the job ids handed out                          *)
  MaxClock,     (* bound on the clock                                       *)
  MaxBoots,     (* bound on restarts, clean or after a crash                *)
  DiskMayFail   (* whether fopen(path, "w") may fail                        *)

ASSUME CronAssumption ==
  /\ MaxJobs \in Nat \ {0}
  /\ Intervals \subseteq Nat \ {0} /\ Delays \subseteq Nat
  /\ MaxId \in Nat /\ MaxClock \in Nat /\ MaxBoots \in Nat
  /\ DiskMayFail \in BOOLEAN

VARIABLES
  jobs,       (* s_jobs[0 .. s_job_count-1]                                 *)
  nextId,     (* s_next_id                                                  *)
  clock,      (* time(NULL)                                                 *)
  pc,         (* where the cron thread is                                   *)
  now,        (* its reading of the clock for this scan                     *)
  idx,        (* the slot its pointer j refers to, 0 between scans          *)
  saving,     (* how far each thread is in cron_save                        *)
  snap,       (* the JSON text each thread has built there                  *)
  file,       (* cron_jobs.json                                             *)
  shutdown,   (* kc_is_shutting_down()                                      *)
  joined,     (* cron_service_stop has joined the cron thread               *)
  boots       (* restarts so far                                            *)

(* What the run so far tells of this boot; the program does not keep it. *)
VARIABLES
  known,      (* the ids added or loaded                                    *)
  once,       (* those of them that are once jobs                           *)
  removed,    (* the ids whose removal the agent was told of                *)
  firings,    (* how often each id was pushed to the inbound queue          *)
  firing,     (* the id of the message the cron thread is pushing           *)
  round,      (* the ids fired in this scan                                 *)
  shifted,    (* a removal moved the table under the cron thread's pointer  *)
  spoiled     (* the last snapshot was taken while another was being written,
                 or a save has failed since                                 *)

table == <<jobs, nextId>>
scan == <<now, idx>>
disk == <<saving, snap, file>>
world == <<clock, shutdown, joined, boots>>
history == <<known, once, removed, firings, firing, round, shifted, spoiled>>
vars == <<table, pc, scan, disk, world, history>>

Savers == {"cron", "agent", "main"}
Ids == 1..MaxId
Job == [id : Nat, every : Nat, next : Nat, enabled : BOOLEAN]

Slots == 1..Len(jobs)
Due(j, t) == j.enabled /\ j.next <= t
(* The enabled jobs of a table, in their order. *)
EnabledSlots(js) == {k \in 1..Len(js) : js[k].enabled}
Enabled(js) == Selected(js, EnabledSlots(js))

Init ==
  /\ jobs = <<>> /\ nextId = 1
  /\ clock = 0 /\ shutdown = FALSE /\ joined = FALSE /\ boots = 0
  /\ pc = "sleep" /\ now = 0 /\ idx = 0
  /\ saving = [t \in Savers |-> "no"] /\ snap = [t \in Savers |-> <<>>]
  /\ file = <<>>
  /\ known = {} /\ once = {} /\ removed = {}
  /\ firings = [id \in Ids |-> 0] /\ firing = 0 /\ round = {}
  /\ shifted = FALSE /\ spoiled = FALSE
-----------------------------------------------------------------------------
(* The cron thread, holding the mutex and a table js, scans on from slot i: it
   stops at the first due job to push its message ... *)
StopAtDue(js, i, t) ==
  LET due == {k \in i..Len(js) : Due(js[k], t)}
  IN  /\ due # {}
      /\ idx' = Min(due)
      /\ now' = t
      /\ firing' = js[Min(due)].id
      /\ jobs' = js
      /\ pc' = "push"
      /\ UNCHANGED <<saving, round>>

(* ... or reaches the end, drops the disabled jobs from the table, and saves
   it if the scan fired anything. *)
EndScan(js, i, t, needSave) ==
  /\ \A k \in i..Len(js) : ~Due(js[k], t)
  /\ jobs' = Enabled(js)
  /\ pc' = IF needSave THEN "save" ELSE "sleep"
  /\ saving' = IF needSave THEN [saving EXCEPT !["cron"] = "snapshot"] ELSE saving
  /\ now' = 0 /\ idx' = 0 /\ firing' = 0 /\ round' = {}

(* Every CRON_CHECK_INTERVAL seconds: read the clock, take the mutex, scan. *)
Wake ==
  /\ pc = "sleep"
  /\ ~shutdown
  /\ StopAtDue(jobs, 1, clock) \/ EndScan(jobs, 1, clock, FALSE)
  /\ UNCHANGED <<nextId, snap, file, world, known, once, removed, firings, shifted, spoiled>>

(* With the mutex released: message_bus_push_inbound.  Whether the queue takes
   the message or it is dropped after a second makes no difference here. *)
PushMessage ==
  /\ pc = "push"
  /\ pc' = "resume"
  /\ firings' = [firings EXCEPT ![firing] = @ + 1]
  /\ round' = round \cup {firing}
  /\ UNCHANGED <<table, scan, disk, world, known, once, removed, firing, shifted, spoiled>>

(* With the mutex again: the job that is in slot idx by now is disabled or given
   its next time.  Past the end of the table the pointer writes a dead slot,
   which nothing reads. *)
RearmedNever ==                          (* mutant: interval jobs are disabled *)
  IF idx \notin Slots THEN jobs ELSE [jobs EXCEPT ![idx].enabled = FALSE]

Rearmed ==
  IF idx \notin Slots THEN jobs
  ELSE IF jobs[idx].every = 0 THEN [jobs EXCEPT ![idx].enabled = FALSE]
  ELSE [jobs EXCEPT ![idx].next = now + jobs[idx].every]

ResumeFromStart ==                       (* mutant: the scan starts again *)
  /\ pc = "resume"
  /\ StopAtDue(Rearmed, 1, now) \/ EndScan(Rearmed, 1, now, TRUE)
  /\ UNCHANGED <<nextId, snap, file, world, known, once, removed, firings, shifted, spoiled>>
ResumeUnsaved ==                         (* mutant: need_save is not set *)
  /\ pc = "resume"
  /\ StopAtDue(Rearmed, idx + 1, now) \/ EndScan(Rearmed, idx + 1, now, FALSE)
  /\ UNCHANGED <<nextId, snap, file, world, known, once, removed, firings, shifted, spoiled>>

Resume ==
  /\ pc = "resume"
  /\ StopAtDue(Rearmed, idx + 1, now) \/ EndScan(Rearmed, idx + 1, now, TRUE)
  /\ UNCHANGED <<nextId, snap, file, world, known, once, removed, firings, shifted, spoiled>>

CronExit ==
  /\ pc = "sleep"
  /\ shutdown
  /\ pc' = "exited"
  /\ UNCHANGED <<table, scan, disk, world, history>>
-----------------------------------------------------------------------------
HasRoom == Len(jobs) < MaxJobs

(* schedule_task: cron_add_job under the mutex; then cron_save. *)
AddJob(every, next) ==
  /\ saving["agent"] = "no"
  /\ HasRoom
  /\ nextId <= MaxId
  /\ jobs' = Append(jobs, [id |-> nextId, every |-> every, next |-> next, enabled |-> TRUE])
  /\ nextId' = nextId + 1
  /\ saving' = [saving EXCEPT !["agent"] = "snapshot"]
  /\ known' = known \cup {nextId}
  /\ once' = IF every = 0 THEN once \cup {nextId} ELSE once
  /\ UNCHANGED <<pc, scan, snap, file, world, removed, firings, firing, round, shifted, spoiled>>

Schedule ==
  \/ \E d \in Delays : AddJob(0, clock + d)
  \/ \E s \in Intervals : AddJob(s, clock + s)

Without(js, k) == RemoveAt(js, k)

(* remove_task: the jobs after the first one with this id move down by one
   slot; then cron_save. *)
RemoveJob(id) ==
  LET slots == {k \in Slots : jobs[k].id = id}
  IN  /\ saving["agent"] = "no"
      /\ slots # {}
      /\ jobs' = Without(jobs, Min(slots))
      /\ saving' = [saving EXCEPT !["agent"] = "snapshot"]
      /\ removed' = removed \cup {id}
      /\ shifted' = (shifted \/ pc \in {"push", "resume"})
      /\ UNCHANGED <<nextId, pc, scan, snap, file, world, known, once, firings, firing, round,
                     spoiled>>
-----------------------------------------------------------------------------
(* cron_save by thread t: the snapshot is taken under the mutex. *)
SaveSnapshot(t) ==
  /\ saving[t] = "snapshot"
  /\ snap' = [snap EXCEPT ![t] = Enabled(jobs)]
  /\ saving' = [saving EXCEPT ![t] = "open"]
  /\ spoiled' = \E u \in Savers \ {t} : saving[u] \in {"open", "write"}
  /\ UNCHANGED <<table, pc, scan, file, world, known, once, removed, firings, firing,
                 round, shifted>>

NotReturned(t) == pc                     (* mutant: the thread hangs in cron_save *)
Returned(t) == IF t = "cron" THEN "sleep" ELSE pc

(* fopen(path, "w") truncates the file, or fails and leaves it. *)
SaveOpen(t) ==
  /\ saving[t] = "open"
  /\ file' = <<>>
  /\ saving' = [saving EXCEPT ![t] = "write"]
  /\ UNCHANGED <<table, pc, scan, snap, world, history>>

SaveFail(t) ==
  /\ DiskMayFail
  /\ saving[t] = "open"
  /\ saving' = [saving EXCEPT ![t] = "no"]
  /\ pc' = Returned(t)
  /\ snap' = [snap EXCEPT ![t] = <<>>]
  /\ spoiled' = TRUE
  /\ UNCHANGED <<table, scan, file, world, known, once, removed, firings, firing, round, shifted>>

(* The text reaches the disk when the stream is closed, at offset 0: the last
   writer's JSON array is what a later load parses. *)
SaveWrite(t) ==
  /\ saving[t] = "write"
  /\ file' = snap[t]
  /\ saving' = [saving EXCEPT ![t] = "no"]
  /\ pc' = Returned(t)
  /\ snap' = [snap EXCEPT ![t] = <<>>]
  /\ UNCHANGED <<table, scan, world, history>>

Save(t) == SaveSnapshot(t) \/ SaveOpen(t) \/ SaveFail(t) \/ SaveWrite(t)
-----------------------------------------------------------------------------
Tick ==
  /\ clock < MaxClock
  /\ clock' = clock + 1
  /\ UNCHANGED <<table, pc, scan, disk, shutdown, joined, boots, history>>

Shutdown ==
  /\ ~shutdown
  /\ shutdown' = TRUE
  /\ UNCHANGED <<table, pc, scan, disk, clock, joined, boots, history>>

(* cron_service_stop: join the thread, then cron_save. *)
StopService ==
  /\ pc = "exited"
  /\ ~joined
  /\ joined' = TRUE
  /\ saving' = [saving EXCEPT !["main"] = "snapshot"]
  /\ UNCHANGED <<table, pc, scan, snap, file, clock, shutdown, boots, history>>

NextIdByCount(ids) == Cardinality(ids) + 1         (* mutant *)
NextId(ids) == Max({0} \cup ids) + 1

(* A new process, after power loss or a kill at any point or after an orderly
   stop: cron_service_init loads what the file holds, and s_next_id ends above
   every id loaded. *)
Restart ==
  LET loaded == SubSeq(file, 1, Min({Len(file), MaxJobs}))
      ids == {loaded[k].id : k \in 1..Len(loaded)}
  IN  /\ boots < MaxBoots
      /\ boots' = boots + 1
      /\ jobs' = loaded
      /\ nextId' = NextId(ids)
      /\ known' = ids
      /\ once' = {loaded[k].id : k \in {k \in 1..Len(loaded) : loaded[k].every = 0}}
      /\ pc' = "sleep" /\ now' = 0 /\ idx' = 0
      /\ saving' = [t \in Savers |-> "no"] /\ snap' = [t \in Savers |-> <<>>]
      /\ shutdown' = FALSE /\ joined' = FALSE
      /\ removed' = {} /\ firings' = [id \in Ids |-> 0] /\ firing' = 0 /\ round' = {}
      /\ shifted' = FALSE /\ spoiled' = FALSE
      /\ UNCHANGED <<clock, file>>

CronStep == Wake \/ PushMessage \/ Resume \/ CronExit \/ Save("cron")

Next ==
  \/ CronStep
  \/ Schedule \/ (\E id \in Ids : RemoveJob(id)) \/ Save("agent")
  \/ StopService \/ Save("main")
  \/ Tick \/ Shutdown \/ Restart

Fairness ==
  /\ WF_vars(CronStep)
  /\ WF_vars(Save("agent"))
  /\ WF_vars(StopService \/ Save("main"))

Spec == Init /\ [][Next]_vars
FairSpec == Spec /\ Fairness
-----------------------------------------------------------------------------
(* Types; and no two jobs of the table share an id, and none has one still to be
   handed out, through shifts, compactions, writes through a stale pointer and
   loads of an old file: remove_task and the agent's answers name one job. *)
TypeOK ==
  /\ jobs \in Seq(Job) /\ Len(jobs) <= MaxJobs /\ nextId \in 1..MaxId+1
  /\ IsInjective([k \in Slots |-> jobs[k].id]) /\ \A k \in Slots : jobs[k].id < nextId
  /\ pc \in {"sleep", "push", "resume", "save", "exited"}
  /\ now \in Nat /\ idx \in 0..MaxJobs
  /\ saving \in [Savers -> {"no", "snapshot", "open", "write"}]
  /\ snap \in [Savers -> Seq(Job)] /\ file \in Seq(Job)
  /\ clock \in Nat /\ shutdown \in BOOLEAN /\ joined \in BOOLEAN /\ boots \in 0..MaxBoots
  /\ known \subseteq Ids /\ once \subseteq known /\ removed \subseteq Ids
  /\ firings \in [Ids -> Nat] /\ firing \in 0..MaxId /\ round \subseteq Ids
  /\ shifted \in BOOLEAN /\ spoiled \in BOOLEAN

(* A job whose removal the agent was told of is in the table no more, and no
   other leaves it but, for a once job, by firing; the exception is a removal
   under the cron thread's pointer.  Between two scans every job in the table is
   enabled: what a write through the stale pointer disables does not stay.    *)
JobsConserved ==
  /\ \A k \in Slots : jobs[k].id \notin removed
  /\ ~shifted => known \ (removed \cup {id \in once : firings[id] > 0})
                    \subseteq {jobs[k].id : k \in {k \in Slots : jobs[k].enabled}}
  /\ pc \in {"sleep", "save", "exited"} => \A k \in Slots : jobs[k].enabled

(* "once: executed once when due" (cron_service.h:19), within one boot. *)
OnceFiresOnce == \A id \in once : firings[id] <= 1

(* It holds as long as no removal moves the table under the cron thread; and one
   scan pushes a job at most once even then, although its slot is another.    *)
FiresOnce ==
  /\ ~shifted => OnceFiresOnce
  /\ pc = "push" => firing \notin round

(* "Saved to a JSON file, restored after a restart" (cron_service.h:9): when
   no thread is changing or saving the table, the file holds its jobs, unless
   the last save failed or overlapped with another: the older snapshot may then
   be written last.  The next save that has the file to itself makes up for it. *)
AtRest == pc \in {"sleep", "exited"} /\ \A t \in Savers : saving[t] = "no"
FileCurrentUnlessSpoiled == ~spoiled /\ AtRest => file = Enabled(jobs)

(* Neither the jobs nor the stop wait for ever: on the mutex, the inbound queue, a
   disk that fails, or a thread that hangs in cron_save.  Again and again no job is
   due that the scan under way has not fired, unless a removal makes the cron
   thread pass over one; and after SIGTERM the thread ends, is joined, and the
   table is saved, unless the process is killed before. *)
DueIds == {jobs[k].id : k \in {k \in Slots : Due(jobs[k], clock)}}
CronGoesOn ==
  []<>(IF shutdown THEN joined /\ saving["main"] = "no" ELSE shifted \/ DueIds \subseteq round)
=============================================================================
