----------------------------- MODULE AgentTurn -----------------------------
(***************************************************************************)
(* One turn of the agent thread (agent/agent_loop.c) and the conversation  *)
(* files it reads and writes (memory/session_mgr.c): load the history,     *)
(* trim it, run the tool loop with the model, save what the turn added.    *)
(*                                                                         *)
(* The agent thread is alone in appending to the files, but the CLI and    *)
(* the WebSocket thread remove one at any time (/clearhis), and the power  *)
(* may go at any time.  An action reaches from one file operation of the   *)
(* agent thread to the next; an append that a removal overtakes leaves the *)
(* same file as one that ends just before it.  Any file may fail to open;  *)
(* one that is open is written, and what fsync, rename and unlink have done*)
(* outlasts a power loss, which an append alone need not.                  *)
(*                                                                         *)
(* A message is known by its kind; texts, and the time stamps of the lines,*)
(* are left out.  How many tokens a text costs is left open, so a trim may *)
(* remove any number of rounds.                                            *)
(***************************************************************************)
EXTENDS Naturals, Sequences, SequencesExt, FiniteSetsExt, Selection

CONSTANTS
  Chats,         (* chat_id: "local", "ws"                                  *)
  MaxIter,       (* KC_AGENT_MAX_TOOL_ITER                                  *)
  MaxHistory,    (* KC_AGENT_MAX_HISTORY                                    *)
  MaxMsgs,       (* KC_SESSION_MAX_MSGS                                     *)
  CompactEvery,  (* KC_SESSION_COMPACT_INTERVAL                             *)
  MayTrim,       (* whether conversations outgrow the token budget          *)
  MaxTurns, MaxClears, MaxCrashes, MaxFails   (* bounds on what happens     *)

ASSUME TurnAssumption ==
  /\ MaxIter \in Nat \ {0} /\ MaxHistory \in Nat \ {0}
  /\ MaxMsgs \in Nat \ {0} /\ CompactEvery \in Nat \ {0}
  /\ MayTrim \in BOOLEAN
  /\ MaxTurns \in Nat /\ MaxClears \in Nat /\ MaxCrashes \in Nat /\ MaxFails \in Nat

(* user: what a user or an event said.  answer: the model's text.  use and
   result: an assistant message with tool_use blocks, and the user message
   with their tool_result blocks. *)
Kinds == {"user", "answer", "use", "result"}

VARIABLES
  file,         (* the lines of <chat_id>.jsonl; <<>> when there is none    *)
  appendCount,  (* s_append_count, one counter for all chats                *)
  pc,           (* where the agent thread is                                *)
  chat,         (* msg.chat_id                                              *)
  messages,     (* the context of the turn                                  *)
  histCount,    (* history_msg_count                                        *)
  iter,         (* iteration                                                *)
  toSave,       (* the messages the save loop still has to append           *)
  tmp           (* the content of <chat_id>.jsonl.tmp                       *)

(* What the run so far tells; the program does not keep it. *)
VARIABLES
  synced,       (* the first lines of each file that are on the disk        *)
  sound,        (* the newest lines of each file that have nothing missing  *)
                (* between them, up to MaxHistory                           *)
  turn,         (* what was said in this turn                               *)
  saved,        (* what of it became lines of their own                     *)
  trimmed,      (* the trim of this turn has removed messages               *)
  failed,       (* an append of this turn has left no line of its own       *)
  removed,      (* the file was removed in this turn                        *)
  raced,        (* a file was removed between the two steps of a compaction *)
  turns,        (* turns begun                                              *)
  clears,       (* how often each file was removed                          *)
  crashes,      (* restarts                                                 *)
  fails         (* files that could not be opened                           *)

files == <<file, appendCount, tmp>>
context == <<chat, messages, histCount, iter>>
marks == <<synced, sound>>
said == <<turn, saved, trimmed, failed, removed>>
world == <<raced, turns, clears, crashes, fails>>
vars == <<files, pc, context, toSave, marks, said, world>>

LastN(s, n) == SubSeq(s, 1 + Len(s) - Min({n, Len(s)}), Len(s))

(* A line also carries how often the file had been removed when it was
   appended; a torn line is one the power loss cut short. *)
Line == [kind : Kinds \cup {"torn", "bad"}, gen : 0..MaxClears]
Parsable(s) == Selected(s, {i \in 1..Len(s) : s[i].kind \in Kinds})
Torn(c) == file[c] # <<>> /\ Last(file[c]).kind = "torn"

Init ==
  /\ file = [c \in Chats |-> <<>>] /\ appendCount = 0 /\ tmp = <<>>
  /\ pc = "idle" /\ chat \in Chats
  /\ messages = <<>> /\ histCount = 0 /\ iter = 0 /\ toSave = <<>>
  /\ synced = [c \in Chats |-> 0] /\ sound = [c \in Chats |-> MaxHistory]
  /\ turn = <<>> /\ saved = <<>> /\ trimmed = FALSE /\ failed = FALSE /\ removed = FALSE
  /\ raced = FALSE /\ turns = 0 /\ clears = [c \in Chats |-> 0] /\ crashes = 0 /\ fails = 0
-----------------------------------------------------------------------------
(* session_get_history: the last MaxHistory lines that parse, from the first
   one that can begin a conversation, which a result cannot, nor a use that
   no result follows. *)
Window(c) ==
  LET window == LastN(Parsable(file[c]), MaxHistory)
  IN  [i \in 1..Len(window) |-> window[i].kind]

HistoryUnrepaired(c) == Window(c)        (* mutant: no repair at the start *)

History(c) ==
  LET kinds == Window(c)
      Safe(i) == /\ kinds[i] # "result"
                 /\ kinds[i] = "use" => i < Len(kinds) /\ kinds[i + 1] = "result"
      start == Min({i \in 1..Len(kinds) : Safe(i)} \cup {Len(kinds) + 1})
  IN  SubSeq(kinds, start, Len(kinds))

(* A round of trim_context removes the first message and the tool messages that
   follow it, but never the last message: where a round may end. *)
RoundEndsAnywhere(ms) == 1..Len(ms)      (* mutant: no inner loop *)

RoundEnds(ms) == {i \in 2..Len(ms) : ms[i] \in {"user", "answer"}} \cup {Len(ms)}

(* trim_context: any number of rounds, as the sizes of the texts have it. *)
Trimmed(ms) ==
  {SubSeq(ms, i, Len(ms)) : i \in {1} \cup IF MayTrim THEN RoundEnds(ms) ELSE {}}

(* A file that cannot be opened. *)
Fails == fails < MaxFails /\ fails' = fails + 1

(* The agent thread takes a message from the inbound queue; a history that cannot
   be read is an empty one. *)
Begin(c) ==
  /\ pc = "idle"
  /\ turns < MaxTurns
  /\ turns' = turns + 1
  /\ chat' = c
  /\ \E history \in {History(c), <<>>} :
       /\ \/ history = History(c) /\ UNCHANGED fails
          \/ history # History(c) /\ Fails
       /\ messages' = Append(history, "user")
       /\ histCount' = Len(history)
  /\ turn' = <<"user">>
  /\ pc' = "trim"
  /\ UNCHANGED <<files, iter, toSave, marks, saved, trimmed, failed, removed, raced, clears,
                 crashes>>

Trim ==
  /\ pc = "trim"
  /\ messages' \in Trimmed(messages)
  /\ trimmed' = (messages' # messages)
  /\ pc' = "llm"
  /\ UNCHANGED <<files, chat, histCount, iter, toSave, marks, turn, saved, failed, removed,
                 world>>
-----------------------------------------------------------------------------
(* The save loop goes over messages from history_msg_count on, whatever the
   trim removed; an answer that is not among them comes after. *)
NewMessagesOffByOne(ms) == SubSeq(ms, histCount + 2, Len(ms))    (* mutant *)
NewMessages(ms) == SubSeq(ms, histCount + 1, Len(ms))

MayIterateOnceMore == iter <= MaxIter    (* mutant *)
MayIterate == iter < MaxIter

(* The call fails, after the retries of llm_proxy: nothing is saved. *)
LlmError ==
  /\ pc = "llm" /\ MayIterate
  /\ pc' = "reply"
  /\ UNCHANGED <<files, context, toSave, marks, said, world>>

(* A save begins.  Of a trimmed turn it may leave out the first messages. *)
BeginSave(ms) ==
  /\ pc' = "save"
  /\ toSave' = ms
  /\ sound' = [sound EXCEPT ![chat] = IF trimmed THEN 0 ELSE @]

(* The model answers with a text, which may be empty. *)
LlmText ==
  /\ pc = "llm" /\ MayIterate
  /\ \E final \in {<<>>, <<"answer">>} :
       /\ turn' = turn \o final
       /\ BeginSave(NewMessages(messages) \o final)
  /\ UNCHANGED <<files, context, synced, saved, trimmed, failed, removed, world>>

(* The model calls tools, and they are run.  When one has answered the user
   itself (response_handled) the turn ends without a text. *)
LlmTools ==
  /\ pc = "llm" /\ MayIterate
  /\ messages' = messages \o <<"use", "result">>
  /\ turn' = turn \o <<"use", "result">>
  /\ \/ pc' = "llm" /\ iter' = iter + 1 /\ UNCHANGED <<toSave, sound>>
     \/ BeginSave(NewMessages(messages')) /\ UNCHANGED iter
  /\ UNCHANGED <<files, chat, histCount, synced, saved, trimmed, failed, removed, world>>

(* The tool loop ran out: a text is made up, appended to messages, and saved
   once more as the final text. *)
IterationLimit ==
  /\ pc = "llm" /\ ~MayIterate
  /\ messages' = Append(messages, "answer")
  /\ turn' = Append(turn, "answer")
  /\ BeginSave(Append(NewMessages(messages'), "answer"))
  /\ UNCHANGED <<files, chat, histCount, iter, synced, saved, trimmed, failed, removed, world>>
-----------------------------------------------------------------------------
(* session_append_message: one line.  It ends a line the power loss cut short,
   and does not parse then.  Every CompactEvery calls, whatever the chat, the
   file written last is compacted. *)
Written(kind) == [kind |-> kind, gen |-> clears[chat]]
SaveNext ==
  /\ pc = "save" /\ toSave # <<>>
  /\ \/ /\ ~Torn(chat)
        /\ file' = [file EXCEPT ![chat] = Append(@, Written(Head(toSave)))]
        /\ saved' = Append(saved, Head(toSave))
        /\ sound' = [sound EXCEPT ![chat] = Min({@ + 1, MaxHistory})]
        /\ UNCHANGED <<synced, failed>>
     \/ /\ Torn(chat)
        /\ file' = [file EXCEPT ![chat] = Append(Front(@), Written("bad"))]
        /\ synced' = [synced EXCEPT ![chat] = Min({@, Len(file[chat]) - 1})]
        /\ sound' = [sound EXCEPT ![chat] = 0]
        /\ failed' = TRUE /\ UNCHANGED saved
  /\ toSave' = Tail(toSave)
  /\ appendCount' = (appendCount + 1) % CompactEvery
  /\ pc' = IF appendCount' = 0 THEN "compact" ELSE "save"
  /\ UNCHANGED <<tmp, context, turn, trimmed, removed, world>>

(* The file cannot be opened: the line is lost, which the save loop ignores. *)
AppendFails ==
  /\ pc = "save" /\ toSave # <<>>
  /\ Fails
  /\ toSave' = Tail(toSave)
  /\ sound' = [sound EXCEPT ![chat] = 0]
  /\ failed' = TRUE
  /\ UNCHANGED <<files, pc, context, synced, turn, saved, trimmed, removed, raced, turns, clears,
                 crashes>>

SaveEnd ==
  /\ pc = "save" /\ toSave = <<>>
  /\ pc' = "reply"
  /\ UNCHANGED <<files, context, toSave, marks, said, world>>

KeptFirst(s) == SubSeq(s, 1, MaxMsgs)    (* mutant: the oldest lines *)
Kept(s) == LastN(s, MaxMsgs)

(* session_compact: read the file, and copy its last MaxMsgs lines to a
   temporary file, which is synced, if it has more ... *)
CompactRead ==
  /\ pc = "compact"
  /\ IF Len(file[chat]) <= MaxMsgs
     THEN pc' = "save" /\ UNCHANGED tmp
     ELSE pc' = "rename" /\ tmp' = Kept(file[chat])
  /\ UNCHANGED <<file, appendCount, context, toSave, marks, said, world>>

(* ... that replaces the file, or a file that has been removed by now. *)
CompactRename ==
  /\ pc = "rename"
  /\ file' = [file EXCEPT ![chat] = tmp]
  /\ synced' = [synced EXCEPT ![chat] = Len(tmp)]
  /\ tmp' = <<>>
  /\ pc' = "save"
  /\ UNCHANGED <<appendCount, context, toSave, sound, said, world>>

(* The file or the temporary one cannot be opened, or the rename fails: the
   file stays as long as it is until the next compaction. *)
CompactFails ==
  /\ (pc = "compact" /\ Len(file[chat]) > MaxMsgs) \/ pc = "rename"
  /\ Fails
  /\ tmp' = <<>>
  /\ pc' = "save"
  /\ UNCHANGED <<file, appendCount, context, toSave, marks, said, raced, turns, clears, crashes>>

(* The answer, or an apology, goes to the outbound queue. *)
NoTurn == turn' = <<>> /\ saved' = <<>> /\ trimmed' = FALSE /\ failed' = FALSE /\ removed' = FALSE
Reply ==
  /\ pc = "reply"
  /\ pc' = "idle"
  /\ messages' = <<>> /\ histCount' = 0 /\ iter' = 0
  /\ NoTurn
  /\ UNCHANGED <<files, chat, toSave, marks, world>>
-----------------------------------------------------------------------------
(* /clearhis in the CLI, or the button of the web page, in their threads. *)
AllButLast(s) == LastN(s, 1)             (* mutant: the newest line stays *)
Removed(s) == <<>>

Clear(c) ==
  /\ clears[c] < MaxClears
  /\ file[c] # <<>>
  /\ file' = [file EXCEPT ![c] = Removed(@)]
  /\ synced' = [synced EXCEPT ![c] = 0]
  /\ clears' = [clears EXCEPT ![c] = @ + 1]
  /\ removed' = (removed \/ (pc # "idle" /\ chat = c))
  /\ raced' = (raced \/ (pc = "rename" /\ chat = c))
  /\ UNCHANGED <<appendCount, tmp, pc, context, toSave, sound, turn, saved, trimmed, failed,
                 turns, crashes, fails>>

(* Power loss and a new process.  The lines that are not synced may be gone, the
   newest first, and the first one gone, or being written, may be torn. *)
Begun(c) ==
  IF c = chat /\ pc = "save" /\ toSave # <<>> /\ ~Torn(c)
  THEN Append(file[c], Written(Head(toSave))) ELSE file[c]
Remains(c, n, tears) ==
  LET lines == SubSeq(file[c], 1, n)
  IN  IF tears THEN Append(lines, [kind |-> "torn", gen |-> Begun(c)[n + 1].gen]) ELSE lines

Crash ==
  /\ crashes < MaxCrashes
  /\ crashes' = crashes + 1
  /\ \E left \in [Chats -> 0..Max({Len(file[c]) : c \in Chats})], torn \in SUBSET Chats :
       /\ \A c \in Chats : left[c] \in synced[c]..Len(file[c])
       /\ \A c \in torn : left[c] < Len(Begun(c))
       /\ file' = [c \in Chats |-> Remains(c, left[c], c \in torn)]
  /\ synced' = [c \in Chats |-> Len(file'[c])]
  /\ sound' = [c \in Chats |-> 0]
  /\ appendCount' = 0 /\ tmp' = <<>>
  /\ pc' = "idle" /\ messages' = <<>> /\ histCount' = 0 /\ iter' = 0 /\ toSave' = <<>>
  /\ NoTurn
  /\ UNCHANGED <<chat, raced, turns, clears, fails>>

Llm == LlmError \/ LlmText \/ LlmTools \/ IterationLimit
Save == SaveNext \/ AppendFails \/ SaveEnd \/ CompactRead \/ CompactRename \/ CompactFails
Agent == (\E c \in Chats : Begin(c)) \/ Trim \/ Llm \/ Save \/ Reply

Next == Agent \/ (\E c \in Chats : Clear(c)) \/ Crash

Spec == Init /\ [][Next]_vars
-----------------------------------------------------------------------------
(* Types; and the file of a single chat stays bounded.  The counter is shared and
   starts again from 0 at a restart, and a compaction that fails is not made up for:
   each adds an interval to the bound. *)
TypeOK ==
  /\ file \in [Chats -> Seq(Line)] /\ tmp \in Seq(Line)
  /\ appendCount \in 0..CompactEvery-1
  /\ Chats = {chat} => Len(file[chat]) <= MaxMsgs + (crashes + fails + 1) * CompactEvery
  /\ pc \in {"idle", "trim", "llm", "save", "compact", "rename", "reply"}
  /\ chat \in Chats
  /\ messages \in Seq(Kinds) /\ toSave \in Seq(Kinds)
  /\ histCount \in 0..MaxHistory /\ iter \in 0..MaxIter
  /\ synced \in [Chats -> Nat] /\ sound \in [Chats -> 0..MaxHistory]
  /\ turn \in Seq(Kinds) /\ saved \in Seq(Kinds)
  /\ trimmed \in BOOLEAN /\ failed \in BOOLEAN /\ removed \in BOOLEAN /\ raced \in BOOLEAN
  /\ turns \in 0..MaxTurns /\ clears \in [Chats -> 0..MaxClears]
  /\ crashes \in 0..MaxCrashes /\ fails \in 0..MaxFails

(* Every tool_use is answered by the next message, and every tool_result
   answers the message before it: what the model's API accepts. *)
Paired(ms) ==
  /\ \A i \in 1..Len(ms) : ms[i] = "use" => i < Len(ms) /\ ms[i + 1] = "result"
  /\ \A i \in 1..Len(ms) : ms[i] = "result" => i > 1 /\ ms[i - 1] = "use"

(* The context sent to the model ends with all that was said in this turn, and is
   well paired wherever the history window, a compaction or a /clearhis in the
   middle of a save cut the conversation.  What an append that failed, a power loss
   or a trimmed turn has left out of the file is forgotten after MaxHistory more
   lines; until then a use may be without its result.                        *)
ContextPaired ==
  pc = "llm" => /\ IsSuffix(turn, messages)
                /\ sound[chat] = MaxHistory => Paired(messages)

(* "Never splits a tool_use/tool_result sequence" (agent_loop.c:62), and the
   message of this turn is not trimmed away. *)
TrimNeverSplits ==
  [][Trim => /\ Paired(messages) => Paired(messages')
             /\ messages' # <<>> /\ Last(messages') = "user"]_vars

(* When a turn is over, its lines are the newest of the file in the order they were
   appended, whatever appends and compactions failed and removals came between; all
   of them are there, or the newest MaxMsgs, unless the file was removed meanwhile.
   And they are exactly what was said, but for a trimmed context, a tool loop that
   ran out, and an append that failed or was joined to a torn line.           *)
SavedFaithful ==
  (pc = "reply" /\ saved # <<>>) =>
    /\ LET n == Min({Len(file[chat]), Len(saved)})
       IN  /\ \A i \in 0..n-1 : file[chat][Len(file[chat]) - i].kind = saved[Len(saved) - i]
           /\ ~removed => n >= Min({MaxMsgs, Len(saved)})
    /\ (~trimmed /\ iter < MaxIter /\ ~failed) => saved = turn

(* While there is power, lines leave a file only by its removal: a compaction, also
   one that fails or that a removal interrupts, keeps the newest MaxMsgs lines, whole
   ones at least, and nothing comes after them but the line being appended. *)
Whole(s) == IF s # <<>> /\ Last(s).kind = "torn" THEN Front(s) ELSE s
NothingForgotten ==
  [][\A c \in Chats : clears'[c] = clears[c] /\ crashes' = crashes =>
       \E lines \in {file'[c], Front(file'[c])} :
         IsSuffix(Whole(LastN(file[c], MaxMsgs)), lines)]_vars

(* "/clearhis: clear the conversation" (README.md:174): no line older than the
   last removal is in a file, however removals and appends alternate; unless one
   fell between the two steps of a compaction, whose rename brings the lines back. *)
ClearStays ==
  ~raced => \A c \in Chats : \A i \in 1..Len(file[c]) : file[c][i].gen = clears[c]

(* The loop saves "only the messages this turn added" (agent_loop.c:440): all
   of them, also when the trim has moved them to lower indices. *)
TurnSavedInFull == (pc = "reply" /\ saved # <<>>) => Len(saved) >= Len(turn)
=============================================================================
