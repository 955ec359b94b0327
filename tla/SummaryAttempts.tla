-------------------------- MODULE SummaryAttempts --------------------------
(***************************************************************************)
(* The neutral summary of the proxy meeting in the media service B: the      *)
(* attempt that END makes, and the regenerations the researcher asks for     *)
(* afterwards.  Commands of one session run one at a time, so at most one    *)
(* attempt is under way.                                                     *)
(*                                                                           *)
(* A transcript is the number of final segments it holds, and stands for its *)
(* checksum too; the text of a summary is a member of Texts.                 *)
(***************************************************************************)
EXTENDS Naturals, Sequences, FiniteSets

CONSTANTS
    Models,         \* versions of the language model B may be configured with
    Texts,          \* what valid summaries say
    MaxSaid,        \* bound: segments
    MaxTries,       \* bound: attempts
    MaxSummaries    \* bound: versions of the summary

ASSUME SummaryAttemptsAssumption ==
    /\ Models # {} /\ Texts # {}
    /\ MaxSaid \in Nat /\ MaxTries \in Nat /\ MaxSummaries \in Nat \ {0}

VARIABLES
    said,           \* final segments of the session so far
    sumTranscripts, \* transcript artifacts, each the segments it was written with
    model,          \* the language model of the running process
    attempts,       \* rows of media_summary_attempts
    work,           \* the attempt under way, or "idle"
    summaries,      \* summary artifacts: the row of each version, or {}
    failures        \* what was reported as failed: "end" or "regenerate", in order

summaryVars == <<said, sumTranscripts, model, attempts, work, summaries, failures>>

Versions == 1..MaxSummaries
Idle == [for |-> "idle"]
Written(v) == summaries[v] # {}

SummaryInit ==
    /\ said = 0 /\ sumTranscripts = {}
    /\ model = CHOOSE m \in Models : TRUE
    /\ attempts = <<>> /\ work = Idle
    /\ summaries = [v \in Versions |-> {}]
    /\ failures = <<>>

-----------------------------------------------------------------------------

\* begin_summary_attempt: the row keeps the configuration and the input.  ran is
\* the model that is asked, which the row does not keep.
Begin(parent, input, config, why) ==
    /\ Len(attempts) < MaxTries
    /\ attempts' = Append(attempts,
          [parent |-> parent, input |-> input, config |-> config, ran |-> model,
           status |-> "started", text |-> {}])
    /\ work' = why

\* People speak, in the proxy meeting and in the synchronous one.
Speak ==
    /\ said < MaxSaid /\ work = Idle
    /\ said' = said + 1
    /\ UNCHANGED <<sumTranscripts, model, attempts, work, summaries, failures>>

\* END of the proxy meeting: the transcript is written and one attempt begun.
EndProxy ==
    /\ work = Idle /\ sumTranscripts = {}
    /\ sumTranscripts' = {said}
    /\ Begin(0, said, model, [for |-> "end", version |-> 1, source |-> said])
    /\ UNCHANGED <<said, model, summaries, failures>>

\* END of the synchronous meeting writes a transcript of all segments, no summary.
EndSync ==
    /\ work = Idle /\ Cardinality(sumTranscripts) = 1 /\ said \notin sumTranscripts
    /\ sumTranscripts' = sumTranscripts \cup {said}
    /\ UNCHANGED <<said, model, attempts, work, summaries, failures>>

(* Mutant: the attempt is generated from the segments there are now. *)
Regenerate_Current(source, version) ==
    /\ work = Idle
    /\ IF source \in sumTranscripts /\ Written(version)
       THEN \E row \in summaries[version] :
               Begin(row.attempt, said,
                     attempts[row.attempt].config,
                     [for |-> "regenerate", version |-> version + 1, source |-> source])
            /\ UNCHANGED failures
       ELSE /\ Len(failures) < MaxTries
            /\ failures' = Append(failures, "regenerate")
            /\ UNCHANGED <<attempts, work>>
    /\ UNCHANGED <<said, sumTranscripts, model, summaries>>

(* Mutant: the retry takes the configuration of the running process. *)
Regenerate_CurrentModel(source, version) ==
    /\ work = Idle
    /\ IF source \in sumTranscripts /\ Written(version)
       THEN \E row \in summaries[version] :
               Begin(row.attempt, attempts[row.attempt].input,
                     model,
                     [for |-> "regenerate", version |-> version + 1, source |-> source])
            /\ UNCHANGED failures
       ELSE /\ Len(failures) < MaxTries
            /\ failures' = Append(failures, "regenerate")
            /\ UNCHANGED <<attempts, work>>
    /\ UNCHANGED <<said, sumTranscripts, model, summaries>>

\* regenerate_summary: both sources must exist; the attempt of the source is run
\* again with its own input and configuration.
Regenerate(source, version) ==
    /\ work = Idle
    /\ IF source \in sumTranscripts /\ Written(version)
       THEN \E row \in summaries[version] :
               Begin(row.attempt, attempts[row.attempt].input,
                     attempts[row.attempt].config,
                     [for |-> "regenerate", version |-> version + 1, source |-> source])
            /\ UNCHANGED failures
       ELSE /\ Len(failures) < MaxTries
            /\ failures' = Append(failures, "regenerate")
            /\ UNCHANGED <<attempts, work>>
    /\ UNCHANGED <<said, sumTranscripts, model, summaries>>

(* Mutant: an outcome the schema does not have. *)
Finish_Unnamed(status, text) ==
    attempts' = [attempts EXCEPT ![Len(attempts)].status = "done",
                                 ![Len(attempts)].text = text]

Finish(status, text) ==
    attempts' = [attempts EXCEPT ![Len(attempts)].status = status,
                                 ![Len(attempts)].text = text]

\* The answer of the model fails validation, or the call fails.
AttemptFails ==
    /\ work # Idle /\ Len(failures) < MaxTries
    /\ Finish("failed", {})
    /\ failures' = Append(failures, work.for)
    /\ work' = Idle
    /\ UNCHANGED <<said, sumTranscripts, model, summaries>>

(* Mutant: an existing version is replaced. *)
WriteSummary_Overwrites(text) ==
    LET old == summaries[work.version]
    IN  IF TRUE
        THEN /\ summaries' = [summaries EXCEPT ![work.version] =
                                {[attempt |-> Len(attempts), text |-> text,
                                  source |-> work.source]}]
             /\ UNCHANGED failures
        ELSE /\ IF \E row \in old : row.text = text
                THEN UNCHANGED failures
                ELSE failures' = Append(failures, work.for)
             /\ UNCHANGED summaries

\* create_artifact_and_enqueue: a version that exists with the same text is left
\* alone, with another text it is refused.
WriteSummary(text) ==
    LET old == summaries[work.version]
    IN  IF old = {}
        THEN /\ summaries' = [summaries EXCEPT ![work.version] =
                                {[attempt |-> Len(attempts), text |-> text,
                                  source |-> work.source]}]
             /\ UNCHANGED failures
        ELSE /\ IF \E row \in old : row.text = text
                THEN UNCHANGED failures
                ELSE failures' = Append(failures, work.for)
             /\ UNCHANGED summaries

AttemptSucceeds(text) ==
    /\ work # Idle /\ work.version <= MaxSummaries /\ Len(failures) < MaxTries
    /\ Finish("succeeded", {text})
    /\ WriteSummary(text)
    /\ work' = Idle
    /\ UNCHANGED <<said, sumTranscripts, model>>

\* B is started again, maybe with another model: the attempt is left as it stood
\* and its command runs again.  END finds people who spoke meanwhile in the
\* segments, and then its transcript is refused.
RestartWith(m) ==
    /\ model' = m
    /\ IF work = Idle
       THEN UNCHANGED <<said, work, attempts, failures>>
       ELSE LET row == attempts[Len(attempts)]
                again == Append(attempts,
                            [row EXCEPT !.ran = m,
                                        !.config = IF row.parent = 0 THEN m ELSE row.config])
            IN  /\ Len(attempts) < MaxTries /\ Len(failures) < MaxTries
                /\ \/ attempts' = again /\ UNCHANGED <<said, work, failures>>
                   \/ /\ work.for = "end" /\ said < MaxSaid
                      /\ said' = said + 1
                      /\ failures' = Append(failures, "end") /\ work' = Idle
                      /\ UNCHANGED attempts
    /\ UNCHANGED <<sumTranscripts, summaries>>

SummaryNext ==
    \/ Speak
    \/ EndProxy
    \/ EndSync
    \/ \E source \in 0..MaxSaid, version \in 1..(MaxSummaries - 1) :
          Regenerate(source, version)
    \/ AttemptFails
    \/ \E text \in Texts : AttemptSucceeds(text)
    \/ \E m \in Models : RestartWith(m)

SummarySpec == SummaryInit /\ [][SummaryNext]_summaryVars

-----------------------------------------------------------------------------
(* Properties.                                                               *)

SummaryTypeOK ==
    /\ said \in 0..MaxSaid /\ sumTranscripts \subseteq 0..MaxSaid
    /\ model \in Models
    /\ attempts \in Seq([parent : 0..MaxTries, input : 0..MaxSaid, config : Models,
                         ran : Models, status : {"started", "failed", "succeeded"},
                         text : SUBSET Texts])
    /\ summaries \in [Versions -> SUBSET [attempt : 1..MaxTries, text : Texts,
                                          source : 0..MaxSaid]]
    /\ failures \in Seq({"end", "regenerate"})

\* A version of the summary that was published is never changed, whatever is
\* regenerated afterwards or repeated after a restart (repository.py:301).
SummariesAreFrozen ==
    [][\A v \in Versions : Written(v) => summaries'[v] = summaries[v]]_summaryVars

\* Every published summary is the text of an attempt that succeeded, and all of
\* them are of one transcript, the one END of the proxy meeting wrote: what people
\* say in the synchronous meeting gets into no summary (summary_attempts.py:126).
SummariesOfProxyMeeting ==
    \A v \in Versions : \A row \in summaries[v] :
        LET attempt == attempts[row.attempt]
        IN  /\ attempt.status = "succeeded" /\ row.text \in attempt.text
            /\ v > 1 => \A first \in summaries[1] :
                           attempt.input = attempts[first.attempt].input

\* A regenerated summary keeps the recorded configuration of the first one through
\* any number of generations and restarts (summary_attempts.py:113).
ConfigurationIsKept ==
    \A v \in Versions : \A row \in summaries[v], first \in summaries[1] :
        attempts[row.attempt].config = attempts[first.attempt].config

\* What is published is a summary of the proxy meeting, made with one
\* configuration, by an attempt that succeeded.
SummariesAreSound == SummaryTypeOK /\ SummariesOfProxyMeeting /\ ConfigurationIsKept
=============================================================================
