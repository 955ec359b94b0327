----------------------------- MODULE ShapeFactory ---------------------------
(***************************************************************************)
(* The Shape Factory game of the legacy platform: production, orders and     *)
(* trades on the session dictionary in memory, which every handler changes   *)
(* without a lock, and the row commit_session writes afterwards.  Requests   *)
(* of people, actions of agents and the production thread run in threads; a  *)
(* request that is in flight has checked, or has a row to write.  What a     *)
(* request does between its check and its row is one step.                   *)
(***************************************************************************)
EXTENDS Integers, FiniteSets, FiniteSetsExt, Sequences, SequencesExt

CONSTANTS
    People,         \* participants who use the page
    Agents,         \* participants run by an AgentRunner
    Shapes,
    Threads,        \* handler threads
    StartingMoney, ShapeCost, IncentiveMoney, TradePrice,
    MaxProductionNum,
    InitialTasks,   \* orders of a participant: a bag of shapes
    MaxOffers,      \* bound: offers proposed
    MaxGameRestarts, \* bound: restarts of the server
    MaxOverlaps     \* bound: requests begun while another one is in flight

ASSUME FactoryAssumption ==
    /\ IsFiniteSet(People) /\ IsFiniteSet(Agents) /\ IsFiniteSet(Shapes)
    /\ {StartingMoney, ShapeCost, IncentiveMoney, TradePrice, MaxProductionNum} \subseteq Nat
    /\ InitialTasks \in [Shapes -> Nat]

VARIABLES
    game,           \* the session in memory: one record per participant, and the trades
    saved,          \* the session in the database
    threads,        \* what each handler thread does next
    proposed,       \* history: offers proposed
    restarted,      \* restarts so far
    overlaps,       \* history: requests begun while another one was in flight
    unsaved         \* history: an agent action failed half-way and was not saved

factoryVars == <<game, saved, threads, proposed, restarted, overlaps, unsaved>>

Players == People \cup Agents
Nothing == [s \in Shapes |-> 0]
Free == [at |-> "free"]
One(s) == [t \in Shapes |-> IF t = s THEN 1 ELSE 0]
Plus(a, b) == [s \in Shapes |-> a[s] + b[s]]
(* Mutant: an order that is not there is removed all the same. *)
Minus_Below(a, b) == [s \in Shapes |-> a[s] - b[s]]

Minus(a, b) == [s \in Shapes |-> IF a[s] > b[s] THEN a[s] - b[s] ELSE 0]
TotalOf(f, S) == MapThenSumSet(LAMBDA x : f[x], S)
Size(bag) == TotalOf(bag, Shapes)

NewPlayer == [money |-> StartingMoney, inventory |-> Nothing, making |-> Nothing, made |-> 0,
              tasks |-> InitialTasks, fulfilled |-> 0, started |-> 0]

FactoryInit ==
    /\ game = [player |-> [p \in Players |-> NewPlayer], offers |-> <<>>, ended |-> <<>>]
    /\ saved = game
    /\ threads = [t \in Threads |-> Free]
    /\ proposed = 0 /\ restarted = 0
    /\ overlaps = 0 /\ unsaved = FALSE

Begin(t, step) ==
    /\ threads[t] = Free
    /\ threads' = [threads EXCEPT ![t] = step]
    /\ IF \A u \in Threads : threads[u] = Free
       THEN UNCHANGED overlaps
       ELSE overlaps < MaxOverlaps /\ overlaps' = overlaps + 1
(* Mutant: the row is taken before the change. *)
Commit_Before(t, g) ==
    /\ game' = g
    /\ threads' = [threads EXCEPT ![t] = [at |-> "save", row |-> game]]

\* commit_session: the row is a copy of the session, written after it was taken.
Commit(t, g) ==
    /\ game' = g
    /\ threads' = [threads EXCEPT ![t] = [at |-> "save", row |-> g]]
BeginCommit(t, g) == game' = g /\ Begin(t, [at |-> "save", row |-> g])

Save(t) ==
    /\ threads[t].at = "save"
    /\ saved' = threads[t].row
    /\ threads' = [threads EXCEPT ![t] = Free]
    /\ UNCHANGED <<game, proposed, restarted, overlaps, unsaved>>

Me(p) == game.player[p]
Become(g, p, owner) == [g EXCEPT !.player[p] = owner]

-----------------------------------------------------------------------------
(* Production: start_production, for a person one shape, for an agent several. *)
MayMake(p) ==
    /\ Me(p).made + Size(Me(p).making) < MaxProductionNum
    /\ Me(p).money >= ShapeCost

(* Mutant: shapes in progress do not count. *)
BeginMake_InProgress(t, p, s, quantity) ==
    /\ Me(p).made < MaxProductionNum
    /\ Me(p).money >= ShapeCost
    /\ Begin(t, [at |-> "make", who |-> p, shape |-> s, left |-> quantity, money |-> Me(p).money])
    /\ UNCHANGED <<game, saved, proposed, restarted, unsaved>>

BeginMake(t, p, s, quantity) ==
    /\ MayMake(p)
    /\ Begin(t, [at |-> "make", who |-> p, shape |-> s, left |-> quantity, money |-> Me(p).money])
    /\ UNCHANGED <<game, saved, proposed, restarted, unsaved>>

Made(p, s, money) ==
    Become(game, p, [Me(p) EXCEPT !.money = money - ShapeCost, !.making = Plus(@, One(s)),
                                  !.started = @ + 1])

\* The money is what was left when the check read it.
FinishMake(t) ==
    LET r == threads[t]
        g == Made(r.who, r.shape, r.money)
        again == /\ g.player[r.who].made + Size(g.player[r.who].making) < MaxProductionNum
                 /\ g.player[r.who].money >= ShapeCost
    IN  /\ r.at = "make"
        /\ \/ r.left = 1 /\ Commit(t, g) /\ UNCHANGED unsaved
           \/ /\ r.left > 1 /\ again
              /\ game' = g /\ UNCHANGED unsaved
              /\ threads' = [threads EXCEPT ![t].left = @ - 1,
                                            ![t].money = g.player[r.who].money]
           \/ \* The next one fails: the handler returns without commit_session.
              /\ r.left > 1 /\ ~again
              /\ game' = g /\ unsaved' = TRUE
              /\ threads' = [threads EXCEPT ![t] = Free]
        /\ UNCHANGED <<saved, proposed, restarted, overlaps>>

(* ProductionService: what is due is moved to the inventory; the rest of the   *)
(* list, as it was read, replaces the list.                                    *)
BeginCollect(t, p, s) ==
    /\ Me(p).making[s] > 0
    /\ Begin(t, [at |-> "collect", who |-> p, due |-> One(s), rest |-> Minus(Me(p).making, One(s))])
    /\ UNCHANGED <<game, saved, proposed, restarted, unsaved>>

(* Mutant: a finished shape stays in production. *)
FinishCollect_Keeps(t) ==
    LET r == threads[t]
    IN  /\ r.at = "collect"
        /\ Commit(t, Become(game, r.who, [Me(r.who) EXCEPT !.inventory = Plus(@, r.due),
                                                           !.made = @ + Size(r.due)]))
        /\ UNCHANGED <<saved, proposed, restarted, overlaps, unsaved>>

FinishCollect(t) ==
    LET r == threads[t]
    IN  /\ r.at = "collect"
        /\ Commit(t, Become(game, r.who, [Me(r.who) EXCEPT !.inventory = Plus(@, r.due),
                                                           !.made = @ + Size(r.due),
                                                           !.making = r.rest]))
        /\ UNCHANGED <<saved, proposed, restarted, overlaps, unsaved>>

-----------------------------------------------------------------------------
(* Orders: submit_shape for a person, who is paid for any shape in the         *)
(* inventory; fulfill_order for an agent, who names orders it has.             *)
Paid(p, s) ==
    Become(game, p, [Me(p) EXCEPT !.inventory = Minus(@, One(s)), !.tasks = Minus(@, One(s)),
                                  !.money = @ + IncentiveMoney, !.fulfilled = @ + 1])

SubmitShape(t, p, s) ==
    /\ p \in People /\ Me(p).inventory[s] > 0
    /\ BeginCommit(t, Paid(p, s))
    /\ UNCHANGED <<saved, proposed, restarted, unsaved>>

FulfillOrder(t, p, s) ==
    /\ p \in Agents /\ Me(p).inventory[s] > 0 /\ Me(p).tasks[s] > 0
    /\ BeginCommit(t, Paid(p, s))
    /\ UNCHANGED <<saved, proposed, restarted, unsaved>>

-----------------------------------------------------------------------------
(* Trades: the page of a person and the actions of an agent have handlers of   *)
(* their own, with the same checks.                                            *)
Offered(t, offer) ==
    /\ proposed < MaxOffers
    /\ BeginCommit(t, [game EXCEPT !.offers = Append(@, offer)])
    /\ proposed' = proposed + 1
    /\ UNCHANGED <<saved, restarted, unsaved>>

OfferOf(p, q, kind, s) == [id |-> proposed + 1, from |-> p, to |-> q, kind |-> kind, shape |-> s]

\* submit_trade.  The seller's inventory is looked at for a sale only, the
\* buyer's money always.
SubmitTrade(t, p, q, kind, s) ==
    LET buyer == IF kind = "buy" THEN p ELSE q
    IN  /\ p \in People
        /\ kind = "sell" => Me(p).inventory[s] > 0
        /\ Me(buyer).money >= TradePrice
        /\ Offered(t, OfferOf(p, q, kind, s))

\* propose_trade_offer
ProposeTradeOffer(t, p, q, kind, s) ==
    /\ p \in Agents
    /\ \/ kind = "sell" /\ Me(p).inventory[s] > 0 /\ Me(q).money >= TradePrice
       \/ kind = "buy" /\ Me(p).money >= TradePrice
    /\ Offered(t, OfferOf(p, q, kind, s))

Seller(o) == IF o.kind = "sell" THEN o.from ELSE o.to
Buyer(o) == IF o.kind = "sell" THEN o.to ELSE o.from

(* Mutant: only the proposal looks at inventory and money. *)
MayTrade_Proposed(o) == o.from \in Players

\* Seller and buyer are looked at again when the offer is accepted.
MayTrade(o) == Me(Seller(o)).inventory[o.shape] > 0 /\ Me(Buyer(o)).money >= TradePrice

Sold(g, o) ==
    Become(g, Seller(o), [g.player[Seller(o)] EXCEPT !.inventory = Minus(@, One(o.shape)),
                                                     !.money = @ + TradePrice])

(* Mutant: the buyer does not pay. *)
Traded_Free(g, o) ==
    LET sold == Sold(g, o)
    IN  Become(sold, Buyer(o), [sold.player[Buyer(o)] EXCEPT !.inventory = Plus(@, One(o.shape))])

Traded(g, o) ==
    LET sold == Sold(g, o)
    IN  Become(sold, Buyer(o), [sold.player[Buyer(o)] EXCEPT !.inventory = Plus(@, One(o.shape)),
                                                             !.money = @ - TradePrice])

\* The offer and its index in pending_offers are looked up.
LookUp(t, i, how) ==
    /\ Begin(t, [at |-> "settle", offer |-> game.offers[i], index |-> i, how |-> how])
    /\ UNCHANGED <<game, saved, proposed, restarted, unsaved>>

\* respond_to_offer and trade_response of the recipient
BeginRespond(t, i, how) ==
    /\ game.offers[i].to \in People
    /\ how = "accepted" => MayTrade(game.offers[i])
    /\ LookUp(t, i, how)

BeginTradeResponse(t, i, how) ==
    /\ game.offers[i].to \in Agents
    /\ how = "accepted" => MayTrade(game.offers[i])
    /\ LookUp(t, i, how)

\* cancel_offer and cancel_trade_offer of the sender
BeginCancel(t, i) == game.offers[i].from \in People /\ LookUp(t, i, "cancelled")
BeginCancelTradeOffer(t, i) == game.offers[i].from \in Agents /\ LookUp(t, i, "cancelled")

(* Mutant: the offer stays pending. *)
Settled_Stays(t, g, r) ==
    LET recorded == [g EXCEPT !.ended = Append(@, [id |-> r.offer.id, how |-> r.how])]
    IN  /\ IF r.index <= Len(game.offers)
           THEN Commit(t, recorded)
           ELSE game' = recorded /\ threads' = [threads EXCEPT ![t] = Free]
        /\ UNCHANGED <<saved, proposed, restarted, overlaps, unsaved>>

\* The record of the offer, and pop of its index; beyond the end of the list pop
\* raises, and the handler answers 500 after the trade.
Settled(t, g, r) ==
    LET recorded == [g EXCEPT !.ended = Append(@, [id |-> r.offer.id, how |-> r.how])]
    IN  /\ IF r.index <= Len(game.offers)
           THEN Commit(t, [recorded EXCEPT !.offers = RemoveAt(@, r.index)])
           ELSE game' = recorded /\ threads' = [threads EXCEPT ![t] = Free]
        /\ UNCHANGED <<saved, proposed, restarted, overlaps, unsaved>>

FinishAccept(t) ==
    LET r == threads[t]
    IN  r.at = "settle" /\ r.how = "accepted" /\ Settled(t, Traded(game, r.offer), r)

FinishDecline(t) ==
    LET r == threads[t]
    IN  r.at = "settle" /\ r.how = "declined" /\ Settled(t, game, r)

FinishCancel(t) ==
    LET r == threads[t]
    IN  r.at = "settle" /\ r.how = "cancelled" /\ Settled(t, game, r)

(* The server restarts: sessions are loaded from the database. *)
RestartServer ==
    /\ restarted < MaxGameRestarts
    /\ restarted' = restarted + 1
    /\ game' = saved
    /\ threads' = [t \in Threads |-> Free]
    /\ UNCHANGED <<saved, proposed, overlaps, unsaved>>

FactoryNext ==
    \/ \E t \in Threads :
        \/ Save(t)
        \/ \E p \in Players, s \in Shapes :
            \/ BeginMake(t, p, s, 1)
            \/ p \in Agents /\ BeginMake(t, p, s, 2)
            \/ BeginCollect(t, p, s)
            \/ SubmitShape(t, p, s)
            \/ FulfillOrder(t, p, s)
            \/ \E q \in Players \ {p}, kind \in {"buy", "sell"} :
                \/ SubmitTrade(t, p, q, kind, s)
                \/ ProposeTradeOffer(t, p, q, kind, s)
        \/ \E i \in 1..Len(game.offers) :
            \/ \E how \in {"accepted", "declined"} :
                BeginRespond(t, i, how) \/ BeginTradeResponse(t, i, how)
            \/ BeginCancel(t, i) \/ BeginCancelTradeOffer(t, i)
        \/ FinishMake(t)
        \/ FinishCollect(t)
        \/ FinishAccept(t) \/ FinishDecline(t) \/ FinishCancel(t)
    \/ RestartServer

FactorySpec == FactoryInit /\ [][FactoryNext]_factoryVars

-----------------------------------------------------------------------------
\* Type correctness.
FactoryTypeOK ==
    /\ \A p \in Players :
        /\ Me(p).money \in Int
        /\ {Me(p).made, Me(p).fulfilled, Me(p).started} \subseteq Nat
        /\ {Me(p).inventory, Me(p).making, Me(p).tasks} \subseteq [Shapes -> Nat]
    /\ \A t \in Threads : threads[t].at \in {"free", "save", "make", "collect", "settle"}

Total(f) == TotalOf(f, Players)

\* Handlers one after the other: the money of the participants is what they
\* began with and earned, less what production cost; trades only move it.
MoneyAccounted ==
    overlaps = 0 =>
        Total([p \in Players |-> Me(p).money]) =
            Total([p \in Players |->
                StartingMoney + IncentiveMoney * Me(p).fulfilled - ShapeCost * Me(p).started])

\* Then every shape that was started is being made, in one inventory, or was
\* handed in for an order.
ShapesAccounted ==
    overlaps = 0 =>
        Total([p \in Players |-> Me(p).started]) =
            Total([p \in Players |-> Size(Me(p).making) + Size(Me(p).inventory) + Me(p).fulfilled])

\* Nobody is in debt: what an offer promised was spent before it was accepted.
NoDebt == overlaps = 0 => \A p \in Players : Me(p).money >= 0

\* An offer is pending or has one outcome, and never both, across a restart too.
OfferEndsOnce ==
    overlaps = 0 =>
        \A id \in 1..proposed :
            Cardinality({i \in 1..Len(game.offers) : game.offers[i].id = id})
                + Cardinality({i \in 1..Len(game.ended) : game.ended[i].id = id}) <= 1

\* config/experiments.py:25: "Maximum total number of shapes a participant can
\* produce".
WithinProductionLimit ==
    overlaps = 0 => \A p \in Players : Me(p).made + Size(Me(p).making) <= MaxProductionNum

\* Between requests the database has what is in memory: a restart loses
\* nothing, except after an agent's production failed half-way.
SavedIsCurrent ==
    (\A t \in Threads : threads[t] = Free) /\ overlaps = 0 /\ ~unsaved => saved = game

\* The game adds up: money, shapes and offers are neither made nor lost, within
\* the limits, and a restart goes on from the same game.
GameAddsUp ==
    /\ FactoryTypeOK
    /\ MoneyAccounted /\ ShapesAccounted /\ NoDebt
    /\ OfferEndsOnce /\ WithinProductionLimit /\ SavedIsCurrent
=============================================================================
