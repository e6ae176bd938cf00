---------------------------- MODULE ChatService -----------------------------
(***************************************************************************)
(* The chat service of requestProcess: the maps of registered users,       *)
(* friends, friend requests, sessions and online users that the request    *)
(* handlers share, the MySQL tables they write through to, and the life of *)
(* the connections (accept, close, reconnect, restart of the server).      *)
(*                                                                         *)
(* A handler is a job of its connection object.  What it does under the    *)
(* global lock is one step; what it does before taking the lock (reading   *)
(* sessionID_mp[m_sessionID]) or without it (client_ready's queries,       *)
(* change_avatar, the close at the end of reconnect) is a step of its own. *)
(* The answers go to the connection's m_datas, which is ConnectionIO's.    *)
(* Refusals (bad syntax, wrong password, no session) change nothing here;  *)
(* search_user and get_friend_items only read.                             *)
(***************************************************************************)
EXTENDS Integers, FiniteSets

CONSTANTS Users,    \* names the handlers accept (letters and digits)
          Conns,    \* descriptors, the indices of m_users
          Sids,     \* bound: the session ids login can generate
          Requests, \* bound: the kinds of request the clients send
          NULL      \* an absent entry of a map

NoName == ""        \* a default-constructed string
Closed == -1        \* m_sockfd of a closed connection

ASSUME ChatAssumption ==
    /\ NoName \notin Users \cup Sids /\ Closed \notin Conns
    /\ NULL \notin Users \cup Sids \cup Conns \cup {Closed} /\ NULL # NoName

Names == Users \cup {NoName}
Rows == Users \X Names            \* a stored packet: addressee, sender

VARIABLES
    user_mp, friend_mp, frireq_mp, sessionID_mp, userfd_mp,  \* shared maps
    user_tb, friend_tb, sessionID_tb, data_not_send_tb,      \* MySQL
    alive,              \* descriptors open in the kernel
    m_sockfd, m_sessionID,
    job,                \* the request each connection object is handling
    closing,            \* the connection the event loop is closing
    used                \* history: session ids issued

friendship == <<friend_mp, friend_tb, frireq_mp>>
session == <<sessionID_mp, sessionID_tb, userfd_mp, used>>
account == <<user_mp, user_tb>>
link == <<alive, m_sockfd, m_sessionID, closing>>
vars == <<user_mp, friend_mp, frireq_mp, sessionID_mp, userfd_mp, user_tb,
          friend_tb, sessionID_tb, data_not_send_tb, alive, m_sockfd,
          m_sessionID, job, closing, used>>

(***************************************************************************)
(* Jobs.  "name" is the user name read before the lock, "arg" the request's*)
(* user or session id (then preUser), "seen" the rows or friends handled.  *)
(***************************************************************************)
OnUser == {"ADF", "accept", "reject", "DEF", "SMA"}
Ops == OnUser \cup {"idle", "LGN", "RGT", "LGT", "RCN", "drop", "dropped",
                    "RDY", "sent", "SAV"}
Idle == [op |-> "idle", name |-> NoName, arg |-> NULL, seen |-> {}]
Args(op) == IF op \in OnUser \cup {"LGN", "RGT"} THEN Users
            ELSE IF op = "RCN" THEN Sids
            ELSE IF op \in {"drop", "dropped"} THEN Conns
            ELSE {NULL}
Jobs == [op : Ops, name : Names, arg : Users \cup Sids \cup Conns \cup {NULL},
         seen : SUBSET (Rows \cup Users)]

TypeOK ==
    /\ user_mp \subseteq Users /\ user_tb \subseteq Users
    /\ friend_mp \subseteq Users \X Users /\ friend_tb \subseteq Users \X Users
    /\ frireq_mp \subseteq Rows /\ data_not_send_tb \subseteq Rows
    /\ sessionID_mp \in [Sids -> Names \cup {NULL}]
    /\ sessionID_tb \in [Sids -> Users \cup {NULL}]
    /\ userfd_mp \in [Names -> Conns \cup {Closed, NULL}]
    /\ alive \subseteq Conns /\ used \subseteq Sids
    /\ m_sockfd \in [Conns -> Conns \cup {Closed}]
    /\ m_sessionID \in [Conns -> Sids \cup {NoName}]
    /\ job \in [Conns -> Jobs]
    /\ \A c \in Conns : job[c].arg \in Args(job[c].op)
    /\ closing \in Conns \cup {NULL}

BothWays(pairs) == pairs \cup {<<p[2], p[1]>> : p \in pairs}

(* A loader that puts a row under its first user only. *)
LoadOneWay(pairs) == pairs
(* initmysql_result: each row of friend_tb makes both users friends. *)
LoadFriends(pairs) == BothWays(pairs)

(* A server just started: initmysql_result has filled three of the maps,   *)
(* nobody is connected.                                                    *)
NoRequests == {}
NobodyOnline == [u \in Names |-> NULL]
NoSessionIDs == [c \in Conns |-> NoName]
AllClosed == [c \in Conns |-> Closed]
AllIdle == [c \in Conns |-> Idle]

Init ==
    /\ user_tb = {} /\ friend_tb = {} /\ data_not_send_tb = {} /\ used = {}
    /\ sessionID_tb = [s \in Sids |-> NULL]
    /\ user_mp = user_tb /\ friend_mp = LoadFriends(friend_tb)
    /\ sessionID_mp = sessionID_tb
    /\ frireq_mp = NoRequests /\ userfd_mp = NobodyOnline
    /\ alive = {} /\ m_sockfd = AllClosed /\ m_sessionID = NoSessionIDs
    /\ job = AllIdle /\ closing = NULL

(* The server dies, at any step, and is started again. *)
Restart ==
    /\ user_mp' = user_tb /\ friend_mp' = LoadFriends(friend_tb)
    /\ sessionID_mp' = sessionID_tb
    /\ frireq_mp' = NoRequests /\ userfd_mp' = NobodyOnline
    /\ alive' = {} /\ m_sockfd' = AllClosed /\ m_sessionID' = NoSessionIDs
    /\ job' = AllIdle /\ closing' = NULL
    /\ UNCHANGED <<user_tb, friend_tb, sessionID_tb, data_not_send_tb, used>>

-----------------------------------------------------------------------------
(* Connections, as the event loop and close_conn handle them. *)

(* accept of a free descriptor and requestProcess::init. *)
Accept(c) ==
    /\ closing = NULL /\ c \notin alive
    /\ alive' = alive \cup {c}
    /\ m_sockfd' = [m_sockfd EXCEPT ![c] = c]
    /\ m_sessionID' = [m_sessionID EXCEPT ![c] = NoName]
    /\ UNCHANGED <<friendship, session, account, data_not_send_tb, job, closing>>

(* A logout that leaves the id in sessionID_tb. *)
LogoutKeepsRow(s) ==
    /\ IF s \in Sids /\ sessionID_mp[s] # NULL
       THEN /\ userfd_mp' = [userfd_mp EXCEPT ![sessionID_mp[s]] = NULL]
            /\ sessionID_mp' = [sessionID_mp EXCEPT ![s] = NULL]
       ELSE UNCHANGED <<sessionID_mp, userfd_mp>>
    /\ UNCHANGED <<sessionID_tb, used>>
(* A logout that leaves the user on line. *)
LogoutKeepsUser(s) ==
    /\ IF s \in Sids /\ sessionID_mp[s] # NULL
       THEN /\ sessionID_mp' = [sessionID_mp EXCEPT ![s] = NULL]
            /\ sessionID_tb' = [sessionID_tb EXCEPT ![s] = NULL]
       ELSE UNCHANGED <<sessionID_mp, sessionID_tb>>
    /\ UNCHANGED <<userfd_mp, used>>
(* The locked part of logout; m_sessionID keeps its value. *)
Logout(s) ==
    /\ IF s \in Sids /\ sessionID_mp[s] # NULL
       THEN /\ userfd_mp' = [userfd_mp EXCEPT ![sessionID_mp[s]] = NULL]
            /\ sessionID_mp' = [sessionID_mp EXCEPT ![s] = NULL]
            /\ sessionID_tb' = [sessionID_tb EXCEPT ![s] = NULL]
       ELSE UNCHANGED <<sessionID_mp, sessionID_tb, userfd_mp>>
    /\ UNCHANGED used

(* Hang-up, error or timer of c: close_conn(true) up to its logout.  A     *)
(* timer left behind by reconnect may close whoever has the descriptor.    *)
CloseBegin(c) ==
    /\ closing = NULL /\ m_sockfd[c] # Closed
    /\ alive' = alive \ {c}
    /\ m_sockfd' = [m_sockfd EXCEPT ![c] = Closed]
    /\ closing' = c
    /\ UNCHANGED <<friendship, session, account, data_not_send_tb, m_sessionID, job>>
CloseEnd ==
    /\ closing # NULL
    /\ Logout(m_sessionID[closing])
    /\ closing' = NULL
    /\ UNCHANGED <<friendship, account, data_not_send_tb, alive, m_sockfd,
                   m_sessionID, job>>

-----------------------------------------------------------------------------
(* Arrival of a request, up to the point where its handler takes the lock. *)

At(c, op) == job[c].op = op
Become(c, op, name, arg, seen) ==
    job' = [job EXCEPT ![c] = [op |-> op, name |-> name, arg |-> arg, seen |-> seen]]
Done(c) == job' = [job EXCEPT ![c] = Idle]

(* Requests that need no session.  A login is sent only while an id is left *)
(* for it: the bound of Sids.                                               *)
BeginPublic(c, op, arg) ==
    /\ c \in alive /\ At(c, "idle") /\ op \in Requests
    /\ op = "LGN" => Cardinality(used) + Cardinality({d \in Conns : At(d, "LGN")})
                        < Cardinality(Sids)
    /\ Become(c, op, NoName, arg, {})
    /\ UNCHANGED <<friendship, session, account, data_not_send_tb, link>>

(* sessionID_mp[m_sessionID], outside the lock: operator[] enters the empty *)
(* name under an id that is no longer a session.                            *)
NameOf(s) == IF sessionID_mp[s] = NULL THEN NoName ELSE sessionID_mp[s]
BeginWithSession(c, op, arg) ==
    /\ c \in alive /\ At(c, "idle") /\ op \in Requests
    /\ m_sessionID[c] # NoName
    /\ Become(c, op, NameOf(m_sessionID[c]), arg, {})
    /\ sessionID_mp' = [sessionID_mp EXCEPT ![m_sessionID[c]] = NameOf(m_sessionID[c])]
    /\ UNCHANGED <<friendship, account, data_not_send_tb, link, sessionID_tb,
                   userfd_mp, used>>

BeginLogout(c) ==
    /\ c \in alive /\ At(c, "idle") /\ "LGT" \in Requests
    /\ m_sessionID[c] # NoName
    /\ Become(c, "LGT", NoName, NULL, {})
    /\ UNCHANGED <<friendship, session, account, data_not_send_tb, link>>
LGT(c) ==
    /\ At(c, "LGT")
    /\ Logout(m_sessionID[c])
    /\ Done(c)
    /\ UNCHANGED <<friendship, account, data_not_send_tb, link>>

-----------------------------------------------------------------------------
(* The locked part of each handler. *)

login(c) ==
    /\ At(c, "LGN")
    /\ IF job[c].arg \in user_mp /\ userfd_mp[job[c].arg] = NULL
       THEN \E s \in Sids \ used :
              /\ used' = used \cup {s}
              /\ m_sessionID' = [m_sessionID EXCEPT ![c] = s]
              /\ sessionID_mp' = [sessionID_mp EXCEPT ![s] = job[c].arg]
              /\ sessionID_tb' = [sessionID_tb EXCEPT ![s] = job[c].arg]
              /\ userfd_mp' = [userfd_mp EXCEPT ![job[c].arg] = m_sockfd[c]]
       ELSE UNCHANGED <<session, m_sessionID>>
    /\ Done(c)
    /\ UNCHANGED <<friendship, account, data_not_send_tb, alive, m_sockfd, closing>>

regis(c) ==
    /\ At(c, "RGT")
    /\ user_mp' = user_mp \cup {job[c].arg}
    /\ user_tb' = IF job[c].arg \in user_mp THEN user_tb ELSE user_tb \cup {job[c].arg}
    /\ Done(c)
    /\ UNCHANGED <<friendship, session, data_not_send_tb, link>>

(* A packet for user u: pushed to its connection, or stored. *)
Tell(u, from) ==
    data_not_send_tb' = IF userfd_mp[u] # NULL THEN data_not_send_tb
                        ELSE data_not_send_tb \cup {<<u, from>>}

(* add_friend without the look at the requests the other way. *)
MayAskAnyway(m, t) ==
    /\ t # m /\ t \in user_mp
    /\ <<t, m>> \notin friend_mp /\ <<t, m>> \notin frireq_mp
MayAsk(m, t) ==
    /\ t # m /\ t \in user_mp
    /\ <<t, m>> \notin friend_mp
    /\ <<t, m>> \notin frireq_mp /\ <<m, t>> \notin frireq_mp
add_friend(c) ==
    LET m == job[c].name  t == job[c].arg IN
    /\ At(c, "ADF")
    /\ IF MayAsk(m, t)
       THEN frireq_mp' = frireq_mp \cup {<<t, m>>} /\ Tell(t, m)
       ELSE UNCHANGED <<frireq_mp, data_not_send_tb>>
    /\ Done(c)
    /\ UNCHANGED <<friend_mp, friend_tb, session, account, link>>

(* A friendship entered for the accepting user only. *)
BefriendOneSide(m, t) ==
    /\ friend_tb' = friend_tb \cup {<<m, t>>}
    /\ friend_mp' = friend_mp \cup {<<m, t>>}
    /\ Tell(t, m)
Befriend(m, t) ==
    /\ friend_tb' = friend_tb \cup {<<m, t>>}
    /\ friend_mp' = friend_mp \cup BothWays({<<m, t>>})
    /\ Tell(t, m)
(* An answer taken at its word: no look for the request. *)
AnswersAnything(m, t) == TRUE
Answers(m, t) == <<m, t>> \in frireq_mp
reply_friend_request(c) ==
    LET m == job[c].name  t == job[c].arg IN
    /\ job[c].op \in {"accept", "reject"}
    /\ IF Answers(m, t) /\ At(c, "accept") /\ <<m, t>> \notin friend_mp
       THEN Befriend(m, t)
       ELSE UNCHANGED <<friend_mp, friend_tb, data_not_send_tb>>
    /\ frireq_mp' = frireq_mp \ {<<m, t>>}
    /\ Done(c)
    /\ UNCHANGED <<session, account, link>>

(* A DELETE that names one order of the two columns. *)
RowsOfOneOrder(m, t) == {<<m, t>>}
RowsOf(m, t) == BothWays({<<m, t>>})
delete_friend(c) ==
    LET m == job[c].name  t == job[c].arg IN
    /\ At(c, "DEF")
    /\ IF <<m, t>> \in friend_mp
       THEN /\ friend_tb' = friend_tb \ RowsOf(m, t)
            /\ friend_mp' = friend_mp \ BothWays({<<m, t>>})
            /\ Tell(t, m)
       ELSE UNCHANGED <<friend_mp, friend_tb, data_not_send_tb>>
    /\ Done(c)
    /\ UNCHANGED <<frireq_mp, session, account, link>>

send_message(c) ==
    LET m == job[c].name  t == job[c].arg IN
    /\ At(c, "SMA")
    /\ IF t # m /\ t \in user_mp /\ <<t, m>> \in friend_mp
       THEN Tell(t, m) ELSE UNCHANGED data_not_send_tb
    /\ Done(c)
    /\ UNCHANGED <<friendship, session, account, link>>

-----------------------------------------------------------------------------
(* Handlers that go on outside the lock. *)

StoredFor(u) == {r \in data_not_send_tb : r[1] = u}

(* client_ready: SELECT, then (locked) append what it found, then DELETE   *)
(* every row of the user.                                                  *)
ReadySelect(c) ==
    /\ At(c, "RDY")
    /\ Become(c, "sent", job[c].name, NULL, StoredFor(job[c].name))
    /\ UNCHANGED <<friendship, session, account, data_not_send_tb, link>>
ReadyDelete(c) ==
    /\ At(c, "sent")
    /\ data_not_send_tb' = data_not_send_tb \ StoredFor(job[c].name)
    /\ Done(c)
    /\ UNCHANGED <<friendship, session, account, link>>

(* change_avatar: tells one friend after the other, with no lock. *)
AvatarTell(c) ==
    /\ At(c, "SAV")
    /\ \E u \in Users \ job[c].seen :
         /\ <<job[c].name, u>> \in friend_mp
         /\ Tell(u, job[c].name)
         /\ job' = [job EXCEPT ![c].seen = @ \cup {u}]
    /\ UNCHANGED <<friendship, session, account, link>>
AvatarDone(c) ==
    /\ At(c, "SAV")
    /\ \A u \in Users \ job[c].seen : <<job[c].name, u>> \notin friend_mp
    /\ Done(c)
    /\ UNCHANGED <<friendship, session, account, data_not_send_tb, link>>

(* reconnect: rebinds the user under the lock, then closes preUser without *)
(* it.  A user with no entry gives preUser 0, which is no client's.        *)
reconnect(c) ==
    LET s == job[c].arg  u == sessionID_mp[s]  preUser == userfd_mp[u] IN
    /\ At(c, "RCN")
    /\ IF u = NULL THEN Done(c) /\ UNCHANGED <<userfd_mp, m_sessionID>>
       ELSE /\ userfd_mp' = [userfd_mp EXCEPT ![u] = m_sockfd[c]]
            /\ m_sessionID' = [m_sessionID EXCEPT ![c] = s]
            /\ IF preUser \in Conns THEN Become(c, "drop", NoName, preUser, {})
                                    ELSE Done(c)
    /\ UNCHANGED <<friendship, account, data_not_send_tb, alive, m_sockfd,
                   closing, sessionID_mp, sessionID_tb, used>>
(* close_conn(preUser): removefd, then m_sockfd = -1; the event loop may   *)
(* accept a client on the descriptor in between.                           *)
DropRemove(c) ==
    /\ At(c, "drop")
    /\ IF m_sockfd[job[c].arg] = Closed THEN Done(c) /\ UNCHANGED alive
       ELSE /\ alive' = alive \ {job[c].arg}
            /\ Become(c, "dropped", NoName, job[c].arg, {})
    /\ UNCHANGED <<friendship, session, account, data_not_send_tb, m_sockfd,
                   m_sessionID, closing>>
DropForget(c) ==
    /\ At(c, "dropped")
    /\ m_sockfd' = [m_sockfd EXCEPT ![job[c].arg] = Closed]
    /\ Done(c)
    /\ UNCHANGED <<friendship, session, account, data_not_send_tb, alive,
                   m_sessionID, closing>>

-----------------------------------------------------------------------------
Begin(c) ==
    \/ \E u \in Users, op \in {"LGN", "RGT"} : BeginPublic(c, op, u)
    \/ \E s \in Sids : BeginPublic(c, "RCN", s)
    \/ \E u \in Users, op \in OnUser : BeginWithSession(c, op, u)
    \/ \E op \in {"RDY", "SAV"} : BeginWithSession(c, op, NULL)
    \/ BeginLogout(c)

Handle(c) ==
    \/ login(c) \/ regis(c) \/ LGT(c) \/ add_friend(c)
    \/ reply_friend_request(c) \/ delete_friend(c) \/ send_message(c)
    \/ ReadySelect(c) \/ ReadyDelete(c) \/ AvatarTell(c) \/ AvatarDone(c)
    \/ reconnect(c) \/ DropRemove(c) \/ DropForget(c)

Next == \/ \E c \in Conns : Accept(c) \/ CloseBegin(c) \/ Begin(c) \/ Handle(c)
        \/ CloseEnd
        \/ Restart

Spec == Init /\ [][Next]_vars

-----------------------------------------------------------------------------
(* Friendship is mutual and never with oneself, whatever requests, answers *)
(* and deletions of the two sides interleave (friend_mp is entered and     *)
(* erased for both users by separate statements).                          *)
FriendsSound == \A p \in friend_mp : p[1] # p[2] /\ <<p[2], p[1]>> \in friend_mp

(* A friend request never waits between two friends, nor both ways at      *)
(* once: the three look-ups of add_friend and the erase at the end of      *)
(* reply_friend_request together exclude it.                               *)
RequestsSound == \A r \in frireq_mp : /\ r \notin friend_mp
                                      /\ <<r[2], r[1]>> \notin frireq_mp

(* Memory and tables agree between handlers: what a restart would load is  *)
(* what is in memory, ids of no session excepted.                          *)
TablesMatchMemory ==
    /\ user_tb = user_mp
    /\ friend_mp = BothWays(friend_tb)
    /\ \A s \in Sids : IF sessionID_tb[s] = NULL
                       THEN sessionID_mp[s] \in {NULL, NoName}
                       ELSE sessionID_mp[s] = sessionID_tb[s]

(* A user shown on line has a session, so that a logout or a reconnect can *)
(* take the entry away: login refuses a user who is on line.               *)
OnlineHasSession ==
    \A u \in Names : userfd_mp[u] # NULL => \E s \in Sids : sessionID_mp[s] = u

(* A restart forgets friend requests and who is on line, never an account  *)
(* or a friendship: initmysql_result rebuilds the maps the handlers kept.  *)
RestartKeepsAccounts ==
    [][Restart => user_mp' = user_mp /\ friend_mp' = friend_mp]_vars
=============================================================================
