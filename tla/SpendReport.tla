------------------------------ MODULE SpendReport ------------------------------
(***************************************************************************)
(* oss-crs-infra/litellm-key-gen/main.py: creates each CRS's LLM key, then *)
(* asks LiteLLM for the keys' spend every few seconds and writes a report  *)
(* for the host and the publisher; after SIGTERM once more.                *)
(***************************************************************************)
EXTENDS Naturals

CONSTANTS
  Crs,       \* the CRSs with a key
  NoReport,  \* there is no report file
  Torn,      \* a report file that is not valid JSON
  MaxUsage,  \* bound: what a CRS spends
  MaxErrors  \* bound: failing queries and polls

VARIABLES
  usage,    \* what LiteLLM has recorded for each key
  kgAt,     \* where main() stands
  kgFinal,  \* this poll is the final flush
  kgReady,  \* the ready file, which gates the start of the CRSs
  kgStop,   \* _SHUTDOWN
  queried,  \* the summary under construction: the CRSs that were asked
  missed,   \* history: the summary under construction counts a failed query as 0
  report,   \* litellm-spend-report.json
  kgErrors  \* history: errors so far

kgVars == <<usage, kgAt, kgFinal, kgReady, kgStop, queried, missed, report, kgErrors>>

Spend   == [Crs -> 0 .. MaxUsage]
Reports == Spend \union {NoReport, Torn}
Polling == {"ask", "write", "replace"}

\* A report file is read back as what was written, or it is none of that.
ASSUME ReportAssumption ==
  /\ NoReport \notin Spend /\ Torn \notin Spend \union {NoReport}
  /\ MaxUsage \in Nat /\ MaxErrors \in Nat

SpendTypeOK ==
  /\ usage \in Spend
  /\ kgAt \in {"absent", "keys", "sleep", "ended", "failed"} \union Polling
  /\ kgFinal \in BOOLEAN /\ kgReady \in BOOLEAN /\ kgStop \in BOOLEAN /\ missed \in BOOLEAN
  /\ queried \in UNION { [asked -> 0 .. MaxUsage] : asked \in SUBSET Crs }
  /\ report \in Reports
  /\ kgErrors \in 0 .. MaxErrors

SpendInit(present) ==
  /\ usage = [c \in Crs |-> 0]
  /\ kgAt = IF present THEN "keys" ELSE "absent"
  /\ kgFinal = FALSE /\ kgReady = ~present /\ kgStop = FALSE
  /\ queried = [c \in {} |-> 0] /\ missed = FALSE
  /\ report = NoReport /\ kgErrors = 0

\* A CRS uses its key.
UseKey(c) ==
  /\ kgAt # "absent"
  /\ usage[c] < MaxUsage
  /\ usage' = [usage EXCEPT ![c] = @ + 1]
  /\ UNCHANGED <<kgAt, kgFinal, kgReady, kgStop, queried, missed, report, kgErrors>>

-----------------------------------------------------------------------------
(* main().                                                                  *)

\* The loop's test of _SHUTDOWN, and the start of a poll or of the final flush.
StartPoll ==
  /\ kgAt' = "ask" /\ kgFinal' = kgStop
  /\ queried' = [c \in {} |-> 0] /\ missed' = FALSE

\* The keys: a missing model or a key that is refused ends the program before it is ready.
CreateKeys ==
  /\ kgAt = "keys"
  /\ \/ StartPoll /\ kgReady' = TRUE
     \/ kgAt' = "failed" /\ UNCHANGED <<kgFinal, kgReady, queried, missed>>
  /\ UNCHANGED <<usage, kgStop, report, kgErrors>>

\* summary[c] = n
Entered(summary, c, n) ==
  [k \in DOMAIN summary \union {c} |-> IF k = c THEN n ELSE summary[k]]

\* get_key_spend for the next CRS; a failing query counts as 0.0.
AskSpend(c) ==
  /\ kgAt = "ask" /\ c \notin DOMAIN queried
  /\ \/ queried' = Entered(queried, c, usage[c]) /\ UNCHANGED <<missed, kgErrors>>
     \/ /\ kgErrors < MaxErrors /\ kgErrors' = kgErrors + 1
        /\ queried' = Entered(queried, c, 0) /\ missed' = TRUE
  /\ kgAt' = IF DOMAIN queried' = Crs THEN "write" ELSE "ask"
  /\ UNCHANGED <<usage, kgFinal, kgReady, kgStop, report>>

\* write_spend_summary: a temporary file beside the report, then os.replace.
WriteTemporary ==
  /\ kgAt = "write"
  /\ kgAt' = "replace"
  /\ UNCHANGED <<usage, kgFinal, kgReady, kgStop, queried, missed, report, kgErrors>>
ReplaceReport ==
  /\ kgAt = "replace"
  /\ report' = queried
  /\ kgAt' = IF kgFinal THEN "ended" ELSE "sleep"
  /\ UNCHANGED <<usage, kgFinal, kgReady, kgStop, queried, missed, kgErrors>>

\* Anything else that is raised: it ends the loop with the program, the final flush catches it.
PollRaises ==
  /\ kgAt \in Polling
  /\ kgErrors < MaxErrors /\ kgErrors' = kgErrors + 1
  /\ kgAt' = "failed"
  /\ UNCHANGED <<usage, kgFinal, kgReady, kgStop, queried, missed, report>>

\* MUTANT of Wake: the end of the loop is the end.
WakeNoFlush ==
  /\ kgAt = "sleep"
  /\ IF kgStop THEN kgAt' = "ended" /\ UNCHANGED <<kgFinal, queried, missed>> ELSE StartPoll
  /\ UNCHANGED <<usage, kgReady, kgStop, report, kgErrors>>
\* The end of the sleep: another poll, or the final flush.
Wake ==
  /\ kgAt = "sleep"
  /\ StartPoll
  /\ UNCHANGED <<usage, kgReady, kgStop, report, kgErrors>>

KeyGenTerm ==
  /\ ~kgStop /\ kgStop' = TRUE
  /\ UNCHANGED <<usage, kgAt, kgFinal, kgReady, queried, missed, report, kgErrors>>
KeyGenKill ==
  /\ kgStop /\ kgAt \notin {"absent", "ended", "failed"}
  /\ kgAt' = "failed"
  /\ UNCHANGED <<usage, kgFinal, kgReady, kgStop, queried, missed, report, kgErrors>>

SpendStep == CreateKeys \/ (\E c \in Crs : AskSpend(c)) \/ WriteTemporary \/ ReplaceReport
               \/ PollRaises \/ Wake \/ KeyGenKill

=============================================================================
