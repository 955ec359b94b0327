------------------------------- MODULE Messages ------------------------------
(***************************************************************************)
(* The messages of a session of the legacy platform.  A message is stamped,  *)
(* put into the list of the session and into the histories of those it       *)
(* concerns, and broadcast; handlers and agents do this in threads of their  *)
(* own.  A list that is missing is made on the way.  Only an agent writes    *)
(* the session to the database; what a person wrote waits in memory for the  *)
(* next handler that does.  Speech, screenshots and logs are left out.       *)
(***************************************************************************)
EXTENDS Integers, FiniteSets, Sequences, SequencesExt

CONSTANTS
    Talkers,        \* human participants
    Robots,         \* participants run by an AgentRunner
    Guides,         \* those of them who guide in a MapTask
    FollowerOf,     \* the participant who follows
    Senders,        \* threads
    Authors,        \* bound: the participants who write
    Window,         \* messages an agent is shown; 10 in the code
    MaxMessages,    \* bound: messages
    MaxSaves,       \* bound: other handlers that write the session
    MaxBoots        \* bound: restarts of the server

ASSUME MessagesAssumption ==
    /\ IsFiniteSet(Talkers) /\ IsFiniteSet(Robots)
    /\ Authors \subseteq Talkers \cup Robots /\ Guides \subseteq Robots /\ FollowerOf \in Talkers \cup Robots
    /\ Window \in Nat \ {0}
    /\ "session" \notin Talkers \cup Robots   \* names the list of the session itself

VARIABLES
    chat,           \* the lists in memory, of the session and of participants: those made so far
    kept,           \* the lists in the database
    sends,          \* what each thread does next
    shown,          \* history: messages that were broadcast
    remade,         \* history: lists that were made although they were there
    older,          \* history: a row was written over a newer one
    rows,           \* history: rows taken, and the newest that was written
    written, saves, boots

chatVars == <<chat, kept, sends, shown, remade, older, rows, written, saves, boots>>

Company == Talkers \cup Robots
Group == "all"
NoSend == [at |-> "free"]

ChatInit ==
    /\ chat = <<>> /\ kept = <<>>
    /\ sends = [t \in Senders |-> NoSend]
    /\ shown = {} /\ remade = {} /\ older = FALSE
    /\ rows = [taken |-> 0, newest |-> 0] /\ written = 0 /\ saves = 0 /\ boots = 0

-----------------------------------------------------------------------------
(* Mutant: a message to the group is in everybody's history. *)
Histories_Everybody(m) == IF m.to = Group THEN Company ELSE {m.from, m.to}

\* handle_send_message keeps a message for its sender and its receiver;
\* _execute_message of an agent keeps one to the group for everybody.
Histories(m) ==
    IF m.to # Group THEN {m.from, m.to}
    ELSE IF m.from \in Robots THEN Company ELSE {m.from}

\* The message has its time before it is in any list; an agent may still have
\* it spoken in between.
Write(t, p, to) ==
    LET m == [time |-> written + 1, from |-> p, to |-> to]
    IN  /\ sends[t] = NoSend /\ written < MaxMessages
        /\ to # p
        /\ written' = written + 1
        /\ sends' = [sends EXCEPT ![t] =
                        [at |-> "look", m |-> m, todo |-> <<"session">> \o SetToSeq(Histories(m))]]
        /\ UNCHANGED <<chat, kept, shown, remade, older, rows, saves, boots>>

SendMessage(t, p, to) == p \in Talkers /\ Write(t, p, to)

ExecuteMessage(t, p, to) == p \in Robots /\ Write(t, p, to)

\* send_map_guidance that names nobody is for the follower.
GuideFollower(t, p) == p \in Guides /\ ExecuteMessage(t, p, FollowerOf)

\* if 'messages' not in ...: a list that is there stays there, so that its test
\* and the append are one step.
LookForList(t) ==
    /\ sends[t].at = "look" /\ Head(sends[t].todo) \notin DOMAIN chat
    /\ sends' = [sends EXCEPT ![t].at = "make"]
    /\ UNCHANGED <<chat, kept, shown, remade, older, rows, written, saves, boots>>

NextPlace(s) ==
    [s EXCEPT !.at = IF Len(s.todo) > 1 THEN "look" ELSE IF s.m.from \in Robots THEN "row" ELSE "show",
              !.todo = Tail(s.todo)]

MakeList(t) ==
    LET s == sends[t]
        place == Head(s.todo)
    IN  /\ s.at = "make"
        /\ chat' = [q \in DOMAIN chat \cup {place} |-> IF q = place THEN <<s.m>> ELSE chat[q]]
        /\ remade' = remade \cup ({place} \cap DOMAIN chat)
        /\ sends' = [sends EXCEPT ![t] = NextPlace(s)]
        /\ UNCHANGED <<kept, shown, older, rows, written, saves, boots>>

(* Mutant: the list of the session is replaced as if it were missing. *)
AppendToList_Replaces(t) ==
    LET s == sends[t]
    IN  /\ s.at = "look" /\ Head(s.todo) \in DOMAIN chat
        /\ chat' = [chat EXCEPT ![Head(s.todo)] = <<s.m>>]
        /\ sends' = [sends EXCEPT ![t] = NextPlace(s)]
        /\ UNCHANGED <<kept, shown, remade, older, rows, written, saves, boots>>

AppendToList(t) ==
    LET s == sends[t]
    IN  /\ s.at = "look" /\ Head(s.todo) \in DOMAIN chat
        /\ chat' = [chat EXCEPT ![Head(s.todo)] = Append(@, s.m)]
        /\ sends' = [sends EXCEPT ![t] = NextPlace(s)]
        /\ UNCHANGED <<kept, shown, remade, older, rows, written, saves, boots>>

\* commit_session of another handler of the session.
OtherSave(t) ==
    /\ sends[t] = NoSend /\ saves < MaxSaves
    /\ saves' = saves + 1
    /\ sends' = [sends EXCEPT ![t] = [at |-> "row"]]
    /\ UNCHANGED <<chat, kept, shown, remade, older, rows, written, boots>>

\* The row is copied ...
TakeRow(t) ==
    /\ sends[t].at = "row"
    /\ rows' = [rows EXCEPT !.taken = @ + 1]
    /\ sends' = [sends EXCEPT ![t] = [at |-> "save", of |-> sends[t], copy |-> chat, n |-> rows.taken + 1]]
    /\ UNCHANGED <<chat, kept, shown, remade, older, written, saves, boots>>

\* ... and written; an agent's message is broadcast afterwards.
SaveRow(t) ==
    LET s == sends[t]
    IN  /\ s.at = "save"
        /\ kept' = s.copy
        /\ older' = (older \/ s.n < rows.newest)
        /\ rows' = [rows EXCEPT !.newest = s.n]
        /\ sends' = [sends EXCEPT ![t] = IF "m" \in DOMAIN s.of THEN [s.of EXCEPT !.at = "show"] ELSE NoSend]
        /\ UNCHANGED <<chat, shown, remade, written, saves, boots>>

(* Mutant: an agent's message is broadcast before it is saved. *)
Broadcast_First(t) ==
    /\ sends[t].at \in {"row", "show"} /\ "m" \in DOMAIN sends[t]
    /\ shown' = shown \cup {sends[t].m}
    /\ sends' = [sends EXCEPT ![t] = NoSend]
    /\ UNCHANGED <<chat, kept, remade, older, rows, written, saves, boots>>

Broadcast(t) ==
    /\ sends[t].at = "show"
    /\ shown' = shown \cup {sends[t].m}
    /\ sends' = [sends EXCEPT ![t] = NoSend]
    /\ UNCHANGED <<chat, kept, remade, older, rows, written, saves, boots>>

Reboot ==
    /\ boots < MaxBoots
    /\ boots' = boots + 1
    /\ chat' = kept
    /\ sends' = [t \in Senders |-> NoSend]
    /\ UNCHANGED <<kept, shown, remade, older, rows, written, saves>>

ChatNext ==
    \/ \E t \in Senders :
        \/ \E p \in Authors :
            \/ GuideFollower(t, p)
            \/ \E to \in Company \cup {Group} : SendMessage(t, p, to) \/ ExecuteMessage(t, p, to)
        \/ LookForList(t) \/ MakeList(t) \/ AppendToList(t)
        \/ OtherSave(t) \/ TakeRow(t) \/ SaveRow(t) \/ Broadcast(t)
    \/ Reboot

ChatSpec == ChatInit /\ [][ChatNext]_chatVars

-----------------------------------------------------------------------------
Listing(lists, place) == IF place \in DOMAIN lists THEN lists[place] ELSE <<>>

For(m, a) == m.to = a \/ (m.to = Group /\ m.from # a)

(* Mutant: what stands last in the list. *)
Unread_Last(a) ==
    LET list == Listing(chat, "session")
        mine == {i \in 1..Len(list) : For(list[i], a)}
    IN  {list[i] : i \in {j \in mine : Cardinality({k \in mine : k > j}) < Window}}

Newest(messages) ==
    {m \in messages : Cardinality({n \in messages : n.time > m.time}) < Window}

\* _get_unread_messages: the newest ones for this agent by their time.
Unread(a) == Newest({m \in ToSet(Listing(chat, "session")) : For(m, a)})

\* What is in a list once is there once, and a history has only what concerns
\* its participant.
HistoriesAreTheirs ==
    \A place \in DOMAIN chat :
        LET list == chat[place]
        IN  /\ IsInjective(list)
            /\ place # "session" =>
                \A i \in 1..Len(list) :
                    \/ place \in {list[i].from, list[i].to}
                    \/ list[i].to = Group /\ list[i].from \in Robots

\* An agent sees every message that was broadcast to it and that Window newer
\* ones have not pushed out, whatever order they came into the list: unless the
\* list was made twice, or the server was started again.
ShownIsRead ==
    boots = 0 /\ "session" \notin remade =>
        \A a \in Robots : \A m \in shown :
            For(m, a) => \/ m \in Unread(a)
                         \/ Cardinality({n \in Unread(a) : n.time > m.time}) = Window

\* A message that was broadcast is in the histories it belongs to.
ShownIsInHistories ==
    boots = 0 => \A m \in shown : \A p \in Histories(m) \ remade : m \in ToSet(Listing(chat, p))

\* An agent's message that was broadcast survives a restart, unless a list was
\* made twice or a row was written over a newer one.
AgentsAreSaved ==
    ~older /\ "session" \notin remade =>
        \A m \in shown : m.from \in Robots => m \in ToSet(Listing(kept, "session"))

\* Messages reach those they are for, and nobody else's history.
MessagesAreKept ==
    /\ HistoriesAreTheirs /\ ShownIsRead /\ ShownIsInHistories /\ AgentsAreSaved
=============================================================================
