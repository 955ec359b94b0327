---------------------------- MODULE TaskAnswers -----------------------------
(***************************************************************************)
(* What participants answer in three tasks of the legacy platform:           *)
(* investments in DayTrader, rankings in EssayRanking, and in MapTask the    *)
(* confirmations that end the session.  Handlers run in threads, change the  *)
(* session dictionary in memory without a lock and write its row afterwards; *)
(* what one does between its check and its row is one step.                  *)
(***************************************************************************)
EXTENDS Integers, FiniteSets, FiniteSetsExt, Sequences

CONSTANTS
    Persons,        \* human participants; in MapTask one of them draws
    Follower,
    Bots,           \* participants run by an AgentRunner
    Handlers,       \* handler threads
    Capital,        \* Session.Params.startingMoney
    Amounts,        \* amounts somebody asks to invest
    Prices,         \* the amounts between minTradePrice and maxTradePrice
    Essays,         \* files that may be uploaded
    Ranks,
    MaxAnswers,     \* bound: requests
    MaxReloads,     \* bound: restarts of the server
    MaxTogether     \* bound: requests begun while another one is in flight

ASSUME AnswersAssumption ==
    /\ IsFiniteSet(Persons) /\ IsFiniteSet(Bots) /\ IsFiniteSet(Essays)
    /\ Persons \cap Bots = {} /\ Follower \in Persons
    /\ Capital \in Nat /\ Amounts \subseteq Nat \ {0} /\ Ranks \subseteq Int

VARIABLES
    kind,           \* experiment_type
    desk,           \* the session in memory
    stored,         \* the session in the database
    work,           \* what each handler thread does next
    said,           \* history: who confirmed since the list was last cleared
    had,            \* history: the sets of essays the session has had
    late,           \* history: the list was cleared while a confirmation was in flight
    refused,        \* history: an upload was refused half-way and not saved
    announced,      \* history: the post-session was announced since the list was cleared
    together,       \* history: requests begun while another one was in flight
    answers, reloads

answerVars == <<kind, desk, stored, work, said, had, late, refused, announced,
               together, answers, reloads>>

Members == Persons \cup Bots
Spare == [at |-> "free"]

\* experiment_params of a participant, and read_essays.  "same": its list of
\* essays is the list of the session, and not a copy.
NewMember == [money |-> Capital, history |-> <<>>, same |-> FALSE, own |-> {},
              ranks |-> <<>>, read |-> {}]

Listed(d, p) == IF d.member[p].same THEN d.essays ELSE d.member[p].own

AnswersInit ==
    /\ kind \in {"daytrader", "essayranking", "maptask"}
    /\ desk = [status |-> "waiting", clock |-> "off", confirmed |-> {}, drawn |-> 0,
               essays |-> {}, member |-> [p \in Members |-> NewMember]]
    /\ stored = desk
    /\ work = [h \in Handlers |-> Spare]
    /\ said = {} /\ had = {{}} /\ late = FALSE /\ refused = FALSE /\ announced = FALSE
    /\ together = 0 /\ answers = 0 /\ reloads = 0

Take(h, step) ==
    /\ work[h] = Spare /\ answers < MaxAnswers
    /\ answers' = answers + 1
    /\ work' = [work EXCEPT ![h] = step]
    /\ IF \A g \in Handlers : work[g] = Spare
       THEN UNCHANGED together
       ELSE together < MaxTogether /\ together' = together + 1

\* commit_session: a row of its own, without shared lists and without the timer,
\* which is not part of the session.
Row(d) == [d EXCEPT !.clock = "off",
                    !.member = [p \in Members |-> [d.member[p] EXCEPT !.same = FALSE, !.own = Listed(d, p)]]]

Keep(h, d) ==
    /\ desk' = d
    /\ work' = [work EXCEPT ![h] = [at |-> "store", row |-> Row(d)]]

Store(h) ==
    /\ work[h].at = "store"
    /\ stored' = work[h].row
    /\ work' = [work EXCEPT ![h] = Spare]
    /\ UNCHANGED <<kind, desk, said, had, late, refused, announced, together, answers, reloads>>

\* update_participant_experiment_params: essays that are missing are added.
Synced(d, p) == [d EXCEPT !.member[p].own = IF d.member[p].same THEN @ ELSE @ \cup d.essays]

-----------------------------------------------------------------------------
(* DayTrader: submit_investment and make_investment                          *)
MayInvest(p, amount) ==
    /\ amount <= desk.member[p].money
    /\ p \in Bots => amount \in Prices

BeginInvest(h, p, amount) ==
    /\ kind = "daytrader"
    /\ MayInvest(p, amount)
    /\ Take(h, [at |-> "invest", who |-> p, amount |-> amount, money |-> desk.member[p].money])
    /\ UNCHANGED <<kind, desk, stored, said, had, late, refused, announced, reloads>>

(* Mutant: the record has the money of the check, the purse that of now. *)
Invested_Rereads(r) ==
    [desk EXCEPT !.member[r.who].history =
                    Append(@, [amount |-> r.amount, before |-> r.money, after |-> r.money - r.amount]),
                 !.member[r.who].money = @ - r.amount]

\* The record and the purse both go by the money the check read.
Invested(r) ==
    [desk EXCEPT !.member[r.who].history =
                    Append(@, [amount |-> r.amount, before |-> r.money, after |-> r.money - r.amount]),
                 !.member[r.who].money = r.money - r.amount]

FinishInvest(h) ==
    /\ work[h].at = "invest"
    /\ Keep(h, Invested(work[h]))
    /\ UNCHANGED <<kind, stored, said, had, late, refused, announced, together, answers, reloads>>

-----------------------------------------------------------------------------
(* EssayRanking                                                              *)
(* Mutant: a copy is replaced by the new essays. *)
Uploaded_Told(new) ==
    [desk EXCEPT !.essays = @ \cup new,
                 !.member = [p \in Members |-> IF desk.member[p].same THEN desk.member[p]
                                               ELSE [desk.member[p] EXCEPT !.own = new]]]

\* upload_essays hands the essays to every participant.
Uploaded(new) ==
    [desk EXCEPT !.essays = @ \cup new,
                 !.member = [p \in Members |-> IF desk.member[p].same THEN desk.member[p]
                                               ELSE [desk.member[p] EXCEPT !.own = desk.essays \cup new \cup @]]]

UploadEssays(h, new) ==
    /\ kind = "essayranking"
    /\ Take(h, [at |-> "store", row |-> Row(Uploaded(new))])
    /\ desk' = Uploaded(new)
    /\ had' = had \cup {desk.essays \cup new}
    /\ UNCHANGED <<kind, stored, said, late, refused, announced, reloads>>

\* A later file is no PDF: answered 400.  What came before it is in the list of
\* the session by then, if the session had one.
RefuseUpload(new) ==
    /\ kind = "essayranking" /\ answers < MaxAnswers
    /\ desk.essays # {}
    /\ desk' = [desk EXCEPT !.essays = @ \cup new]
    /\ had' = had \cup {desk.essays \cup new}
    /\ refused' = TRUE
    /\ answers' = answers + 1
    /\ UNCHANGED <<kind, stored, work, said, late, announced, together, reloads>>

Places(ranks, e) == {i \in 1..Len(ranks) : ranks[i].essay = e}

(* Mutant: every submission is a record of its own. *)
BeginRank_Appends(h, p, e, n) ==
    /\ kind = "essayranking"
    /\ p \in Persons /\ e \in Listed(desk, p)
    /\ Take(h, [at |-> "rank", who |-> p, essay |-> e, rank |-> n, places |-> {}])
    /\ UNCHANGED <<kind, desk, stored, said, had, late, refused, announced, reloads>>

\* submit_essay_rank: an essay of the participant, and its record if it has one.
BeginRank(h, p, e, n) ==
    /\ kind = "essayranking"
    /\ p \in Persons /\ e \in Listed(desk, p)
    /\ Take(h, [at |-> "rank", who |-> p, essay |-> e, rank |-> n,
                places |-> Places(desk.member[p].ranks, e)])
    /\ UNCHANGED <<kind, desk, stored, said, had, late, refused, announced, reloads>>

FinishRank(h) ==
    LET r == work[h]
        d == IF r.places = {}
             THEN [desk EXCEPT !.member[r.who].ranks = Append(@, [essay |-> r.essay, rank |-> r.rank])]
             ELSE [desk EXCEPT !.member[r.who].ranks[Min(r.places)].rank = r.rank]
    IN  /\ r.at = "rank"
        /\ Keep(h, Synced(d, r.who))
        /\ UNCHANGED <<kind, stored, said, had, late, refused, announced, together, answers, reloads>>

(* Mutant: essays may be left out of a ranking. *)
WholeRanking_Some(ranks) ==
    /\ \A i \in 1..Len(ranks) : ranks[i].essay \in desk.essays
    /\ \A i, j \in 1..Len(ranks) : i # j => ranks[i].essay # ranks[j].essay /\ ranks[i].rank # ranks[j].rank
    /\ Len(ranks) > 0

\* submit_ranking of an agent: every essay once, and no rank twice.
WholeRanking(ranks) ==
    /\ \A i \in 1..Len(ranks) : ranks[i].essay \in desk.essays
    /\ \A i, j \in 1..Len(ranks) : i # j => ranks[i].essay # ranks[j].essay /\ ranks[i].rank # ranks[j].rank
    /\ Len(ranks) = Cardinality(desk.essays) /\ ranks # <<>>

BeginAgentRanking(h, p, ranks) ==
    /\ kind = "essayranking"
    /\ p \in Bots /\ WholeRanking(ranks)
    /\ Take(h, [at |-> "ranking", who |-> p, ranks |-> ranks])
    /\ UNCHANGED <<kind, desk, stored, said, had, late, refused, announced, reloads>>

\* The row is taken before experiment_params is brought up to date.
FinishAgentRanking(h) ==
    LET r == work[h]
        d == [desk EXCEPT !.member[r.who].ranks = r.ranks]
    IN  /\ r.at = "ranking"
        /\ desk' = Synced(d, r.who)
        /\ work' = [work EXCEPT ![h] = [at |-> "store", row |-> Row(d)]]
        /\ UNCHANGED <<kind, stored, said, had, late, refused, announced, together, answers, reloads>>

\* get_essay_content: an essay that was read is not read again.
ReadEssay(h, p, e) ==
    LET d == [desk EXCEPT !.member[p].read = @ \cup {e}]
    IN  /\ kind = "essayranking"
        /\ p \in Bots /\ e \in desk.essays \ desk.member[p].read
        /\ Take(h, [at |-> "store", row |-> Row(d)])
        /\ desk' = d
        /\ UNCHANGED <<kind, stored, said, had, late, refused, announced, reloads>>

-----------------------------------------------------------------------------
(* MapTask with annotation                                                   *)
\* update_map_progress
DrawRoute(h, p, ratio) ==
    LET d == [desk EXCEPT !.drawn = ratio]
    IN  /\ kind = "maptask" /\ p = Follower
        /\ Take(h, [at |-> "store", row |-> Row(d)])
        /\ desk' = d
        /\ UNCHANGED <<kind, stored, said, had, late, refused, announced, reloads>>

\* pause_timer, and a timer that is paused is not started again by start_session.
Held == IF desk.clock = "on" THEN "held" ELSE desk.clock
Started == IF desk.clock = "off" THEN "on" ELSE desk.clock

\* maptask_submit_confirm works on a copy of the list.
BeginConfirm(h, p) ==
    /\ kind = "maptask"
    /\ p \in Persons /\ desk.status = "running"
    /\ Take(h, [at |-> "confirm", who |-> p, list |-> desk.confirmed])
    /\ UNCHANGED <<kind, desk, stored, said, had, late, refused, announced, reloads>>

(* Mutant: the first confirmation ends the session. *)
FinishConfirm_First(h) ==
    LET r == work[h]
        confirmed == r.list \cup {r.who}
        d == [desk EXCEPT !.confirmed = confirmed, !.status = "paused", !.clock = Held]
    IN  /\ r.at = "confirm"
        /\ Keep(h, d)
        /\ said' = said \cup {r.who} /\ announced' = TRUE
        /\ UNCHANGED <<kind, stored, had, late, refused, together, answers, reloads>>

FinishConfirm(h) ==
    LET r == work[h]
        confirmed == r.list \cup {r.who}
        d == [desk EXCEPT !.confirmed = confirmed]
    IN  /\ r.at = "confirm"
        /\ said' = said \cup {r.who}
        /\ IF Persons \subseteq confirmed
           THEN Keep(h, [d EXCEPT !.status = "paused", !.clock = Held]) /\ announced' = TRUE
           ELSE Keep(h, d) /\ UNCHANGED announced
        /\ UNCHANGED <<kind, stored, had, late, refused, together, answers, reloads>>

Clearing ==
    /\ said' = {} /\ announced' = FALSE
    /\ late' = (late \/ \E h \in Handlers : work[h].at = "confirm")

\* start_session: running first, and the list and the clock afterwards.
BeginStartTask(h) ==
    /\ kind = "maptask"
    /\ Take(h, [at |-> "start"])
    /\ desk' = [desk EXCEPT !.status = "running"]
    /\ UNCHANGED <<kind, stored, said, had, late, refused, announced, reloads>>

(* Mutant: confirmations of the last run still count. *)
FinishStartTask_KeepsList(h) ==
    /\ work[h].at = "start"
    /\ Keep(h, [desk EXCEPT !.clock = Started])
    /\ Clearing
    /\ UNCHANGED <<kind, stored, had, refused, together, answers, reloads>>

FinishStartTask(h) ==
    /\ work[h].at = "start"
    /\ Keep(h, [desk EXCEPT !.confirmed = {}, !.clock = Started])
    /\ Clearing
    /\ UNCHANGED <<kind, stored, had, refused, together, answers, reloads>>

\* pause_session and resume_session leave the list alone.
TurnTask(h, status) ==
    LET d == [desk EXCEPT !.status = status, !.clock = IF status = "running" THEN "on" ELSE Held]
    IN  /\ kind = "maptask"
        /\ Take(h, [at |-> "store", row |-> Row(d)])
        /\ desk' = d
        /\ UNCHANGED <<kind, stored, said, had, late, refused, announced, reloads>>

-----------------------------------------------------------------------------
\* reset_session empties experiment_params; a field that comes from the session
\* is filled again, the list of essays with the list of the session itself.
\* Bound: no answer is between its check and its row.
ResetTask(h) ==
    LET fresh == [p \in Members |->
                    [NewMember EXCEPT !.same = (desk.essays # {}), !.read = desk.member[p].read]]
        d == [desk EXCEPT !.status = "waiting", !.clock = "off", !.confirmed = {}, !.member = fresh]
    IN  /\ \A g \in Handlers : work[g].at \in {"free", "store", "confirm", "start"}
        /\ Take(h, [at |-> "store", row |-> Row(d)])
        /\ desk' = d
        /\ Clearing
        /\ UNCHANGED <<kind, stored, had, refused, reloads>>

(* The server restarts: sessions are loaded from the database. *)
Reload ==
    /\ reloads < MaxReloads
    /\ reloads' = reloads + 1
    /\ desk' = stored
    /\ work' = [h \in Handlers |-> Spare]
    /\ said' = stored.confirmed
    /\ late' = FALSE /\ announced' = FALSE
    /\ UNCHANGED <<kind, stored, had, refused, together, answers>>

AnswersNext ==
    \/ \E h \in Handlers :
        \/ Store(h)
        \/ \E p \in Members :
            \/ \E amount \in Amounts : BeginInvest(h, p, amount)
            \/ \E e \in Essays : ReadEssay(h, p, e) \/ \E n \in Ranks : BeginRank(h, p, e, n)
            \/ \E k \in 1..Cardinality(Essays) :
                \E ranks \in [1..k -> [essay : Essays, rank : Ranks]] : BeginAgentRanking(h, p, ranks)
            \/ \E ratio \in 0..1 : DrawRoute(h, p, ratio)
            \/ BeginConfirm(h, p)
        \/ \E new \in SUBSET (Essays \ desk.essays) \ {{}} : UploadEssays(h, new)
        \/ FinishInvest(h) \/ FinishRank(h) \/ FinishAgentRanking(h) \/ FinishConfirm(h)
        \/ BeginStartTask(h) \/ FinishStartTask(h) \/ ResetTask(h)
        \/ \E status \in {"running", "paused"} : TurnTask(h, status)
    \/ \E new \in SUBSET (Essays \ desk.essays) \ {{}} : RefuseUpload(new)
    \/ Reload

AnswersSpec == AnswersInit /\ [][AnswersNext]_answerVars

-----------------------------------------------------------------------------
\* Type correctness.
AnswersTypeOK ==
    /\ desk.status \in {"waiting", "running", "paused"}
    /\ desk.confirmed \subseteq Persons /\ desk.essays \subseteq Essays
    /\ \A p \in Members :
        /\ desk.member[p].money \in Nat
        /\ Listed(desk, p) \cup desk.member[p].read \subseteq Essays

\* Whatever overlaps, what a participant has is what the last record left, and
\* every record began with what an earlier one left: an overlap may spend money
\* twice, but nobody invests money that was never there.
InvestmentsChain ==
    \A p \in Members :
        LET history == desk.member[p].history
            left == [i \in 0..Len(history) |-> IF i = 0 THEN Capital ELSE history[i].after]
        IN  /\ desk.member[p].money = left[Len(history)]
            /\ \A i \in 1..Len(history) :
                /\ history[i].after = history[i].before - history[i].amount /\ history[i].after >= 0
                /\ \E j \in 0..(i - 1) : history[i].before = left[j]

\* One answer after the other: an amount is spent once, every record begins with
\* what the last one left.
InvestedIsSpent ==
    together = 0 =>
        \A p \in Members :
            LET history == desk.member[p].history
            IN  \A i \in 1..Len(history) :
                    history[i].before = IF i = 1 THEN Capital ELSE history[i - 1].after

\* A person has one rank for an essay, and an agent ranks all the essays the
\* session had, each at a place of its own.
RankingsStand ==
    /\ \A p \in Members : \A i \in 1..Len(desk.member[p].ranks) : desk.member[p].ranks[i].essay \in desk.essays
    /\ together = 0 => \A p \in Persons, e \in Essays : Cardinality(Places(desk.member[p].ranks, e)) <= 1
    /\ \A p \in Bots :
        LET ranks == desk.member[p].ranks
        IN  ranks # <<>> =>
                /\ {ranks[i].essay : i \in 1..Len(ranks)} \in had
                /\ \A i, j \in 1..Len(ranks) : i # j => ranks[i].rank # ranks[j].rank

\* Everybody has the essays of the session; after an upload was refused
\* half-way, perhaps not yet all of them.
EssaysAreShared ==
    \A p \in Members : Listed(desk, p) \subseteq desk.essays /\ (refused \/ Listed(desk, p) = desk.essays)

\* Whatever overlaps, only a participant who confirmed since the session was
\* started counts as confirmed, and the session goes on to the post-session
\* only when everybody has, unless the start came in between.
ConfirmedSaidSo ==
    ~late => desk.confirmed \subseteq said /\ (announced => Persons \subseteq said)

\* One request after the other, no confirmation is lost, and the session is
\* paused with its clock when the last one arrives.
ConfirmationsCount ==
    together = 0 /\ reloads = 0 =>
        /\ desk.confirmed = said
        /\ desk.status = "paused" => desk.clock # "on"

\* Between requests the database has what is in memory.
StoredIsCurrent ==
    (\A h \in Handlers : work[h] = Spare) /\ together = 0 /\ ~refused => stored = Row(desk)

\* The answers of the three tasks are kept as they were given.
AnswersAreKept ==
    /\ AnswersTypeOK
    /\ InvestmentsChain /\ InvestedIsSpent
    /\ RankingsStand /\ EssaysAreShared
    /\ ConfirmedSaidSo /\ ConfirmationsCount
    /\ StoredIsCurrent
=============================================================================
