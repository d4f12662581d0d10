------------------------------ MODULE MCLaunch ------------------------------
(* What the process makes of what it finds: credentials, and the logs a    *)
(* client goes on writing.  They share no state, so each is explored on its *)
(* own: part says which one, and it stays the same.                        *)
EXTENDS CredentialDetection

CONSTANTS NumSessions, Reports, MaxWrites, MaxSecond, MaxScans,
          Requests, MaxTokens, MaxLines

VARIABLES
  part,
  second, writes, reports, file, place, used, task, spent, blurred,
  row, scan, scans, sum, quiet,
  written, lines, output, exact, byMessage

(* The lines of a client carry its totals, its last usage, or both.        *)
ASSUME LaunchAssumption ==
  /\ NumSessions \in Nat \ {0} /\ MaxTokens \in Nat /\ MaxSecond \in Nat
  /\ Reports \subseteq {"both", "totals", "last"}

Logs == INSTANCE UsageLogs
ClaudeLogs == INSTANCE ClaudeLogs

logVars == <<second, writes, reports, file, place, used, task, spent, blurred,
             row, scan, scans, sum, quiet>>
claudeLogVars == <<written, lines, output, exact, byMessage>>

launchVars == <<part, vars, logVars, claudeLogVars>>

(* The variables of a part that does not move.                             *)
Unused == "unused"
NoLogs ==
  /\ second = Unused /\ writes = Unused /\ reports = Unused /\ file = Unused
  /\ place = Unused /\ used = Unused /\ task = Unused /\ spent = Unused
  /\ blurred = Unused /\ row = Unused /\ scan = Unused /\ scans = Unused
  /\ sum = Unused /\ quiet = Unused
NoClaudeLogs ==
  /\ written = Unused /\ lines = Unused /\ output = Unused
  /\ exact = Unused /\ byMessage = Unused

LaunchInit ==
  /\ part \in {"detection", "logs", "claude"}
  /\ Init
  /\ part # "detection" => present = Elsewhere /\ detected = {} /\ plan[Startup].replace
  /\ IF part = "logs" THEN Logs!LogInit ELSE NoLogs
  /\ IF part = "claude" THEN ClaudeLogs!ClaudeLogInit ELSE NoClaudeLogs

DetectionPart ==
  part = "detection" /\ Next
    /\ UNCHANGED <<part, logVars, claudeLogVars>>

LogsPart ==
  part = "logs" /\ Logs!LogNext
    /\ UNCHANGED <<part, vars, claudeLogVars>>

ClaudePart ==
  part = "claude" /\ ClaudeLogs!ClaudeLogNext
    /\ UNCHANGED <<part, vars, logVars>>

LaunchNext == DetectionPart \/ LogsPart \/ ClaudePart

LaunchSpec == LaunchInit /\ [][LaunchNext]_launchVars

-----------------------------------------------------------------------------
(* A scan of quiet logs counts every token used, and no scan counts one    *)
(* twice (providers/codex/local_usage.rs, providers/log_usage.rs); copies  *)
(* of a message count once, in whatever order they are found               *)
(* (providers/claude/local_usage.rs).                                      *)
TokensCountedOnce ==
  /\ part = "logs" => Logs!TokensCountedOnce
  /\ part = "claude" => ClaudeLogs!MessagesCountedOnce
=============================================================================
