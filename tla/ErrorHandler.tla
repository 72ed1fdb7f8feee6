---------------------------- MODULE ErrorHandler -----------------------------
(***************************************************************************)
(* axonvex::core::ErrorHandler: the errors that were reported last, two    *)
(* counters, and a callback that runs under the mutex of the list.         *)
(***************************************************************************)
EXTENDS Naturals, Sequences, SequencesExt

CONSTANTS Reporters,
          max_errors_,
          MaxReports

Nobody == "nobody"
Severities == {"ERROR", "CRITICAL"}

VARIABLES errors_, error_count_, critical_error_count_,
          holder,     \* who holds errors_mutex_ for a callback
          reentered,  \* reporters whose callback called back into the handler
          history     \* all reports since the last clearErrors()

errorVars == <<errors_, error_count_, critical_error_count_, holder, reentered, history>>

ErrorInit ==
  /\ errors_ = <<>> /\ error_count_ = 0 /\ critical_error_count_ = 0
  /\ holder = Nobody /\ reentered = {} /\ history = <<>>

\* Fault: the newest errors are trimmed.
trimNewest(s) == SubSeq(s, 1, IF Len(s) > max_errors_ THEN max_errors_ ELSE Len(s))

trimErrorsIfNeeded(s) ==
  IF Len(s) > max_errors_ THEN SubSeq(s, Len(s) - max_errors_ + 1, Len(s)) ELSE s

\* reportError(): counted, kept, and the callback runs with the mutex held.
reportError(t, severity) ==
  /\ holder = Nobody /\ holder' = t /\ error_count_ < MaxReports
  /\ error_count_' = error_count_ + 1
  /\ critical_error_count_' = critical_error_count_ + (IF severity = "CRITICAL" THEN 1 ELSE 0)
  /\ errors_' = trimErrorsIfNeeded(Append(errors_, severity))
  /\ history' = Append(history, severity)
  /\ UNCHANGED reentered

\* The callback returns; or it calls hasErrors(), getLastError() or reportError() and waits for
\* the mutex that its own thread holds.
callback(t) ==
  /\ holder = t /\ t \notin reentered
  /\ \/ holder' = Nobody /\ UNCHANGED reentered
     \/ reentered' = reentered \cup {t} /\ UNCHANGED holder
  /\ UNCHANGED <<errors_, error_count_, critical_error_count_, history>>

\* clearErrors() leaves both counters as they are.
clearErrors ==
  /\ holder = Nobody /\ errors_' = <<>> /\ history' = <<>>
  /\ UNCHANGED <<error_count_, critical_error_count_, holder, reentered>>

hasCriticalErrors == critical_error_count_ > 0

\* getErrorReport(): the three newest, the newest first.
recentErrors == Reverse(SubSeq(errors_, IF Len(errors_) > 3 THEN Len(errors_) - 2 ELSE 1, Len(errors_)))

ErrorNext ==
  \/ clearErrors
  \/ \E t \in Reporters : callback(t) \/ \E s \in Severities : reportError(t, s)

-----------------------------------------------------------------------------

\* The list holds the newest reports since it was cleared, as many as it may; what it shows of
\* a critical error was counted, and the report begins with the last error.
NewestErrorsKept ==
  /\ IsSuffix(errors_, history)
  /\ Len(errors_) = (IF Len(history) < max_errors_ THEN Len(history) ELSE max_errors_)
  /\ Contains(errors_, "CRITICAL") => hasCriticalErrors
  /\ errors_ # <<>> => Head(recentErrors) = Last(errors_)
=============================================================================
