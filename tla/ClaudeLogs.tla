----------------------------- MODULE ClaudeLogs -----------------------------
(* The tokens counted from the logs of the Claude client                   *)
(* (providers/claude/local_usage.rs).  The client writes the same message  *)
(* several times: as it grows, in copies of its session, and once more in  *)
(* the log of a side chain.  The files are read in the order of their      *)
(* paths, which tells nothing of the order they were written in.           *)
(*                                                                         *)
(* One step reads one line.  An event is what tells two apart: message,    *)
(* request, side chain, tokens, and whether it names its speed.  Models,   *)
(* prices and days are left out.                                           *)
EXTENDS Integers, Sequences, FiniteSets

CONSTANTS Requests,
          MaxTokens,    \* bound: tokens of a line
          MaxLines      \* bound: lines read

VARIABLES written,   \* the events read so far (history)
          lines,     \* lines read
          output,    \* the events kept
          exact,     \* where the event of a message and a request is kept
          byMessage  \* where the events of a message are kept

claudeLogVars == <<written, lines, output, exact, byMessage>>

None == "no message"
Message == "m"
Advised == "m:advisor:0"
Nowhere == 0

Event(message, request, side, tokens, speed) ==
  [message |-> message, request |-> request, side |-> side, tokens |-> tokens,
   speed |-> speed]

(* What a client writes; advised: part of it was done by another model.    *)
Lines ==
  [message : {Message}, request : Requests, side : BOOLEAN, tokens : 1 .. MaxTokens,
   speed : BOOLEAN, advised : BOOLEAN]
    \union [message : {None}, request : Requests, side : {FALSE}, tokens : {1},
            speed : {FALSE}, advised : {FALSE}]

(* The message, and one event for what an advisor did.                     *)
ParseEntries(line) ==
  <<Event(line.message, line.request, line.side, line.tokens, line.speed)>>
    \o IF line.advised THEN <<Event(Advised, line.request, line.side, 1, FALSE)>> ELSE <<>>

-----------------------------------------------------------------------------
(* One round of deduplicate(), over what it has made so far.               *)

Key(event) == <<event.message, event.request>>

(* The same request; or the first that is in a side chain, here or there:  *)
(* the places of a message are found in the order they were added.         *)
Collision(d, event) ==
  LET beside == {i \in d.byMessage[event.message] : event.side \/ d.output[i].side}
  IN IF d.exact[Key(event)] # Nowhere THEN d.exact[Key(event)]
     ELSE IF beside # {} THEN CHOOSE i \in beside : \A j \in beside : i <= j ELSE Nowhere

Replaces(event, existing) ==
  \/ existing.side /\ ~event.side
  \/ /\ existing.side = event.side
     /\ \/ event.tokens > existing.tokens
        \/ event.tokens = existing.tokens /\ event.speed /\ ~existing.speed

(* Variant: the key of the event that was replaced stays.                  *)
ReplaceOnly(d, i, event) ==
  [d EXCEPT !.output[i] = event, !.exact[Key(event)] = i]

Replace(d, i, event) ==
  [d EXCEPT !.output[i] = event,
            !.exact = [[@ EXCEPT ![Key(d.output[i])] = Nowhere] EXCEPT ![Key(event)] = i]]

Add(d, event) ==
  LET i == Len(d.output) + 1
  IN [output |-> Append(d.output, event),
      exact |-> [d.exact EXCEPT ![Key(event)] = i],
      byMessage |-> [d.byMessage EXCEPT ![event.message] = @ \union {i}]]

Deduplicate(d, event) ==
  LET i == Collision(d, event)
  IN IF event.message = None THEN [d EXCEPT !.output = Append(@, event)]
     ELSE IF i = Nowhere THEN Add(d, event)
     ELSE IF Replaces(event, d.output[i]) THEN Replace(d, i, event)
     ELSE d

Kept == [output |-> output, exact |-> exact, byMessage |-> byMessage]

ReadLine ==
  /\ lines < MaxLines
  /\ \E line \in Lines :
       LET events == ParseEntries(line)
           first == Deduplicate(Kept, events[1])
           kept == IF Len(events) = 1 THEN first ELSE Deduplicate(first, events[2])
       IN /\ written' = written \union {events[i] : i \in DOMAIN events}
          /\ output' = kept.output /\ exact' = kept.exact /\ byMessage' = kept.byMessage
  /\ lines' = lines + 1

ClaudeLogInit ==
  /\ written = {} /\ lines = 0 /\ output = <<>>
  /\ exact = [key \in {Message, Advised} \X Requests |-> Nowhere]
  /\ byMessage = [m \in {Message, Advised} |-> {}]

ClaudeLogNext == ReadLine

ClaudeLogSpec == ClaudeLogInit /\ [][ClaudeLogNext]_claudeLogVars

-----------------------------------------------------------------------------
(* What is to be counted of a message: each of its requests once, with the *)
(* most tokens any copy tells of; a side chain only if nothing else tells  *)
(* of the message, and once for all its requests.                          *)
Expected(message) ==
  LET all == {e \in written : e.message = message}
      own == {e \in all : ~e.side}
      most(S) == {e \in S : \A f \in S : ~Replaces(f, e)}
  IN IF own # {} THEN {most({e \in own : e.request = r}) : r \in Requests} \ {{}}
     ELSE {most(all)} \ {{}}

(* Whatever the order in which the lines are found, every message counts   *)
(* once for each of its requests, with its final tokens, and what a side   *)
(* chain repeats does not count again (deduplicate).                       *)
MessagesCountedOnce ==
  \A message \in {Message, Advised} :
    LET counted == {i \in DOMAIN output : output[i].message = message}
    IN /\ Cardinality(counted) = Cardinality(Expected(message))
       /\ \A best \in Expected(message) : \E i \in counted : output[i] \in best
=============================================================================
