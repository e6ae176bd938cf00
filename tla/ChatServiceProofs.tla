------------------------- MODULE ChatServiceProofs -------------------------
(***************************************************************************)
(* Theorems about ChatService, for every set of users, descriptors and     *)
(* session ids and every kind of request, restarts included.               *)
(***************************************************************************)
EXTENDS ChatService, TLAPS

JobsOK == /\ job \in [Conns -> Jobs]
          /\ \A c \in Conns : job[c].arg \in Args(job[c].op)

MapsOK == /\ user_mp \subseteq Users /\ user_tb \subseteq Users
          /\ friend_mp \subseteq Users \X Users
          /\ friend_tb \subseteq Users \X Users
          /\ frireq_mp \subseteq Rows /\ data_not_send_tb \subseteq Rows
          /\ sessionID_mp \in [Sids -> Names \cup {NULL}]
          /\ sessionID_tb \in [Sids -> Users \cup {NULL}]
          /\ userfd_mp \in [Names -> Conns \cup {Closed, NULL}]

LinksOK == /\ alive \subseteq Conns /\ used \subseteq Sids
           /\ m_sockfd \in [Conns -> Conns \cup {Closed}]
           /\ m_sessionID \in [Conns -> Sids \cup {NoName}]
           /\ closing \in Conns \cup {NULL}

(* A job that begins, goes on or ends is a job. *)
LEMMA JobBecomes ==
    ASSUME JobsOK, NEW c \in Conns, NEW op \in Ops, NEW name \in Names,
           NEW arg \in Args(op), NEW seen \in SUBSET (Rows \cup Users),
           Become(c, op, name, arg, seen)
    PROVE  JobsOK'
<1> DEFINE new == [op |-> op, name |-> name, arg |-> arg, seen |-> seen]
<1>1. new \in Jobs /\ new.arg \in Args(new.op)
  BY DEF Jobs, Args
<1> HIDE DEF new
<1>2. job' = [job EXCEPT ![c] = new]
  BY DEF new, Become
<1> QED BY <1>1, <1>2 DEF JobsOK

(* A handler that is done leaves an idle connection. *)
LEMMA JobDone ==
    ASSUME JobsOK, NEW c \in Conns, Done(c)
    PROVE  JobsOK'
<1>1. /\ "idle" \in Ops /\ NoName \in Names /\ NULL \in Args("idle")
      /\ {} \in SUBSET (Rows \cup Users)
  BY DEF Ops, OnUser, Names, Args
<1>2. Become(c, "idle", NoName, NULL, {})
  BY DEF Done, Idle, Become
<1> QED BY <1>1, <1>2, JobBecomes

(* Requests a connection begins. *)
LEMMA BeginTypes ==
    ASSUME TypeOK, NEW c \in Conns, Begin(c)
    PROVE  TypeOK'
<1> USE ChatAssumption
<1>0. JobsOK /\ MapsOK /\ LinksOK
  BY DEF TypeOK, JobsOK, MapsOK, LinksOK
<1>1. ASSUME NEW op \in Ops, NEW arg \in Args(op), BeginPublic(c, op, arg)
      PROVE  TypeOK'
  <2>1. JobsOK'
    BY <1>0, <1>1, JobBecomes DEF BeginPublic, Names
  <2>2. MapsOK' /\ LinksOK'
    BY <1>0, <1>1 DEF BeginPublic, MapsOK, LinksOK, friendship, session, account, link
  <2> QED BY <2>1, <2>2 DEF TypeOK, JobsOK, MapsOK, LinksOK
<1>2. ASSUME NEW op \in Ops, NEW arg \in Args(op), BeginWithSession(c, op, arg)
      PROVE  TypeOK'
  <2>1. m_sessionID[c] \in Sids /\ NameOf(m_sessionID[c]) \in Names
    BY <1>0, <1>2 DEF BeginWithSession, NameOf, MapsOK, LinksOK, Names
  <2>2. JobsOK'
    BY <1>0, <1>2, <2>1, JobBecomes DEF BeginWithSession
  <2>3. MapsOK' /\ LinksOK'
    BY <1>0, <1>2, <2>1
    DEF BeginWithSession, MapsOK, LinksOK, friendship, account, link
  <2> QED BY <2>2, <2>3 DEF TypeOK, JobsOK, MapsOK, LinksOK
<1>3. CASE BeginLogout(c)
  <2>1. JobsOK'
    <3>1. /\ "LGT" \in Ops /\ NULL \in Args("LGT") /\ NoName \in Names
          /\ {} \in SUBSET (Rows \cup Users)
      BY DEF Ops, OnUser, Args, Names
    <3> QED BY <1>0, <1>3, <3>1, JobBecomes DEF BeginLogout
  <2>2. MapsOK' /\ LinksOK'
    BY <1>0, <1>3 DEF BeginLogout, MapsOK, LinksOK, friendship, session, account, link
  <2> QED BY <2>1, <2>2 DEF TypeOK, JobsOK, MapsOK, LinksOK
<1>4. /\ \A op \in {"LGN", "RGT"} : op \in Ops /\ Args(op) = Users
      /\ "RCN" \in Ops /\ Args("RCN") = Sids
      /\ \A op \in OnUser : op \in Ops /\ Args(op) = Users
      /\ \A op \in {"RDY", "SAV"} : op \in Ops /\ NULL \in Args(op)
  BY DEF Ops, OnUser, Args
<1> QED BY <1>1, <1>2, <1>3, <1>4 DEF Begin

(* Handlers, in any state of their jobs. *)
LEMMA HandleTypes ==
    ASSUME TypeOK, NEW c \in Conns, Handle(c)
    PROVE  TypeOK'
<1> USE ChatAssumption
<1>0. JobsOK /\ MapsOK /\ LinksOK
  BY DEF TypeOK, JobsOK, MapsOK, LinksOK
<1>a. ASSUME JobsOK', MapsOK', LinksOK' PROVE TypeOK'
  BY <1>a DEF TypeOK, JobsOK, MapsOK, LinksOK
<1>b. /\ job[c].name \in Names /\ job[c].seen \subseteq Rows \cup Users
      /\ job[c].arg \in Args(job[c].op)
  BY <1>0 DEF JobsOK, Jobs
<1>c. /\ \A op \in OnUser \cup {"LGN", "RGT"} : Args(op) = Users
      /\ Args("RCN") = Sids /\ Args("drop") = Conns /\ Args("dropped") = Conns
      /\ Args("sent") = {NULL}
      /\ "drop" \in Ops /\ "dropped" \in Ops /\ "sent" \in Ops
      /\ NoName \in Names /\ {} \in SUBSET (Rows \cup Users)
  BY DEF Args, OnUser, Ops, Names
<1>d. ASSUME NEW s, Logout(s), MapsOK,
             UNCHANGED <<friendship, account, data_not_send_tb>>
      PROVE  MapsOK' /\ UNCHANGED used
  BY <1>d DEF Logout, MapsOK, friendship, account, Names
<1>e. ASSUME NEW u \in Users, NEW from \in Names, Tell(u, from), MapsOK
      PROVE  data_not_send_tb' \subseteq Rows
  BY <1>e DEF Tell, MapsOK, Rows
<1>1. CASE login(c)
  <2>1. job[c].arg \in Users
    BY <1>1, <1>b, <1>c DEF login, At, OnUser
  <2>2. JobsOK'
    BY <1>0, <1>1, JobDone DEF login
  <2>3. LinksOK'
    BY <1>0, <1>1 DEF login, LinksOK, session
  <2>4. MapsOK'
    <3>1. m_sockfd[c] \in Conns \cup {Closed}
      BY <1>0 DEF LinksOK
    <3> QED
      BY <1>0, <1>1, <2>1, <3>1 DEF login, MapsOK, friendship, account, session, Names
  <2> QED BY <1>a, <2>2, <2>3, <2>4
<1>2. CASE regis(c)
  <2>1. job[c].arg \in Users
    BY <1>2, <1>b, <1>c DEF regis, At
  <2>2. JobsOK'
    BY <1>0, <1>2, JobDone DEF regis
  <2>3. LinksOK' /\ MapsOK'
    BY <1>0, <1>2, <2>1 DEF regis, LinksOK, MapsOK, link, session, friendship
  <2> QED BY <1>a, <2>2, <2>3
<1>3. CASE LGT(c)
  <2>1. JobsOK'
    BY <1>0, <1>3, JobDone DEF LGT
  <2>2. MapsOK' /\ UNCHANGED used
    BY <1>0, <1>3, <1>d DEF LGT
  <2>3. LinksOK'
    BY <1>0, <1>3, <2>2 DEF LGT, LinksOK, link
  <2> QED BY <1>a, <2>1, <2>2, <2>3
<1>4. CASE add_friend(c)
  <2>1. job[c].arg \in Users
    BY <1>4, <1>b, <1>c DEF add_friend, At, OnUser
  <2>2. JobsOK'
    BY <1>0, <1>4, JobDone DEF add_friend
  <2>3. LinksOK'
    BY <1>0, <1>4 DEF add_friend, LinksOK, link, session
  <2>4. frireq_mp' \subseteq Rows /\ data_not_send_tb' \subseteq Rows
    BY <1>0, <1>4, <1>b, <1>e, <2>1 DEF add_friend, MapsOK, Rows
  <2>5. MapsOK'
    BY <1>0, <1>4, <2>4 DEF add_friend, MapsOK, session, account
  <2> QED BY <1>a, <2>2, <2>3, <2>5
<1>5. CASE reply_friend_request(c)
  <2>1. job[c].arg \in Users
    BY <1>5, <1>b, <1>c DEF reply_friend_request, OnUser
  <2>2. JobsOK'
    BY <1>0, <1>5, JobDone DEF reply_friend_request
  <2>3. LinksOK'
    BY <1>0, <1>5 DEF reply_friend_request, LinksOK, link, session
  <2>4. ASSUME Answers(job[c].name, job[c].arg) PROVE job[c].name \in Users
    BY <1>0, <2>4 DEF Answers, MapsOK, Rows
  <2>5. data_not_send_tb' \subseteq Rows /\ frireq_mp' \subseteq Rows
    BY <1>0, <1>5, <1>b, <1>e, <2>1 DEF reply_friend_request, Befriend, MapsOK
  <2>6. friend_mp' \subseteq Users \X Users /\ friend_tb' \subseteq Users \X Users
    BY <1>0, <1>5, <2>1, <2>4
    DEF reply_friend_request, Befriend, BothWays, MapsOK
  <2>7. MapsOK'
    BY <1>0, <1>5, <2>5, <2>6 DEF reply_friend_request, MapsOK, session, account
  <2> QED BY <1>a, <2>2, <2>3, <2>7
<1>6. CASE delete_friend(c)
  <2>1. job[c].arg \in Users
    BY <1>6, <1>b, <1>c DEF delete_friend, At, OnUser
  <2>2. JobsOK'
    BY <1>0, <1>6, JobDone DEF delete_friend
  <2>3. LinksOK'
    BY <1>0, <1>6 DEF delete_friend, LinksOK, link, session
  <2>4. data_not_send_tb' \subseteq Rows
    BY <1>0, <1>6, <1>b, <1>e, <2>1 DEF delete_friend, MapsOK
  <2>5. friend_mp' \subseteq friend_mp /\ friend_tb' \subseteq friend_tb
    BY <1>6 DEF delete_friend
  <2>6. MapsOK'
    BY <1>0, <1>6, <2>4, <2>5 DEF delete_friend, MapsOK, session, account
  <2> QED BY <1>a, <2>2, <2>3, <2>6
<1>7. CASE send_message(c)
  <2>1. job[c].arg \in Users
    BY <1>7, <1>b, <1>c DEF send_message, At, OnUser
  <2>2. JobsOK'
    BY <1>0, <1>7, JobDone DEF send_message
  <2>3. data_not_send_tb' \subseteq Rows
    BY <1>0, <1>7, <1>b, <1>e, <2>1 DEF send_message, MapsOK
  <2>4. LinksOK' /\ MapsOK'
    BY <1>0, <1>7, <2>3
    DEF send_message, LinksOK, MapsOK, link, session, account, friendship
  <2> QED BY <1>a, <2>2, <2>4
<1>8. CASE ReadySelect(c)
  <2>1. StoredFor(job[c].name) \in SUBSET (Rows \cup Users)
    BY <1>0 DEF StoredFor, MapsOK
  <2>2. JobsOK'
    BY <1>0, <1>8, <1>b, <1>c, <2>1, JobBecomes DEF ReadySelect
  <2>3. LinksOK' /\ MapsOK'
    BY <1>0, <1>8
    DEF ReadySelect, LinksOK, MapsOK, link, session, account, friendship
  <2> QED BY <1>a, <2>2, <2>3
<1>9. CASE ReadyDelete(c) \/ AvatarDone(c)
  <2>1. JobsOK'
    BY <1>0, <1>9, JobDone DEF ReadyDelete, AvatarDone
  <2>2. LinksOK' /\ MapsOK'
    BY <1>0, <1>9
    DEF ReadyDelete, AvatarDone, LinksOK, MapsOK, link, session, account, friendship
  <2> QED BY <1>a, <2>1, <2>2
<1>10. CASE AvatarTell(c)
  <2> PICK u \in Users : /\ Tell(u, job[c].name)
                         /\ job' = [job EXCEPT ![c].seen = @ \cup {u}]
    BY <1>10 DEF AvatarTell
  <2>1. JobsOK'
    BY <1>0, <1>b DEF JobsOK, Jobs
  <2>2. data_not_send_tb' \subseteq Rows
    BY <1>0, <1>b, <1>e
  <2>3. LinksOK' /\ MapsOK'
    BY <1>0, <1>10, <2>2
    DEF AvatarTell, LinksOK, MapsOK, link, session, account, friendship
  <2> QED BY <1>a, <2>1, <2>3
<1>11. CASE reconnect(c)
  <2> DEFINE s == job[c].arg  u == sessionID_mp[s]  preUser == userfd_mp[u]
  <2>1. s \in Sids
    BY <1>11, <1>b, <1>c DEF reconnect, At
  <2>2. u \in Names \cup {NULL}
    BY <1>0, <2>1 DEF MapsOK
  <2>3. JobsOK'
    BY <1>0, <1>11, <1>c, JobBecomes, JobDone DEF reconnect
  <2>4. LinksOK'
    BY <1>0, <1>11, <2>1 DEF reconnect, LinksOK
  <2>5. userfd_mp' \in [Names -> Conns \cup {Closed, NULL}]
    <3>1. m_sockfd[c] \in Conns \cup {Closed}
      BY <1>0 DEF LinksOK
    <3> QED BY <1>0, <1>11, <2>2, <3>1 DEF reconnect, MapsOK
  <2>6. MapsOK'
    BY <1>0, <1>11, <2>5 DEF reconnect, MapsOK, friendship, account
  <2> QED BY <1>a, <2>3, <2>4, <2>6
<1>12. CASE DropRemove(c) \/ DropForget(c)
  <2>1. job[c].arg \in Conns
    BY <1>12, <1>b, <1>c DEF DropRemove, DropForget, At
  <2>2. JobsOK'
    BY <1>0, <1>12, <1>c, <2>1, JobBecomes, JobDone DEF DropRemove, DropForget
  <2>3. LinksOK'
    BY <1>0, <1>12, <2>1 DEF DropRemove, DropForget, LinksOK, session
  <2>4. MapsOK'
    BY <1>0, <1>12 DEF DropRemove, DropForget, MapsOK, session, account, friendship
  <2> QED BY <1>a, <2>2, <2>3, <2>4
<1> QED
  BY <1>1, <1>2, <1>3, <1>4, <1>5, <1>6, <1>7, <1>8, <1>9, <1>10, <1>11, <1>12
  DEF Handle

(* The service keeps its types: in particular only users are ever friends, *)
(* though handlers may act for the empty name.                             *)
THEOREM TypeCorrect == Spec => []TypeOK
<1> USE ChatAssumption
<1>1. Init => TypeOK
  <2> SUFFICES ASSUME Init PROVE TypeOK
    OBVIOUS
  <2>1. JobsOK
    BY DEF Init, AllIdle, Idle, JobsOK, Jobs, Ops, OnUser, Names, Args
  <2>2. MapsOK /\ LinksOK
    BY DEF Init, MapsOK, LinksOK, LoadFriends, BothWays, NoRequests, NobodyOnline,
           AllClosed, NoSessionIDs, Names
  <2> QED BY <2>1, <2>2 DEF TypeOK, JobsOK, MapsOK, LinksOK
<1>2. TypeOK /\ [Next]_vars => TypeOK'
  <2> SUFFICES ASSUME TypeOK, [Next]_vars PROVE TypeOK'
    OBVIOUS
  <2>0. JobsOK /\ MapsOK /\ LinksOK
    BY DEF TypeOK, JobsOK, MapsOK, LinksOK
  <2>a. ASSUME JobsOK', MapsOK', LinksOK' PROVE TypeOK'
    BY <2>a DEF TypeOK, JobsOK, MapsOK, LinksOK
  <2>1. ASSUME NEW c \in Conns, Accept(c) \/ CloseBegin(c) PROVE TypeOK'
    <3>1. JobsOK'
      BY <2>0, <2>1 DEF Accept, CloseBegin, JobsOK
    <3>2. MapsOK'
      BY <2>0, <2>1 DEF Accept, CloseBegin, MapsOK, friendship, session, account
    <3>3. LinksOK'
      BY <2>0, <2>1 DEF Accept, CloseBegin, LinksOK, session
    <3> QED BY <2>a, <3>1, <3>2, <3>3
  <2>2. CASE CloseEnd
    <3>1. JobsOK'
      BY <2>0, <2>2 DEF CloseEnd, JobsOK
    <3>2. MapsOK'
      BY <2>0, <2>2 DEF CloseEnd, Logout, MapsOK, friendship, account, Names
    <3>3. LinksOK'
      BY <2>0, <2>2 DEF CloseEnd, Logout, LinksOK
    <3> QED BY <2>a, <3>1, <3>2, <3>3
  <2>3. CASE Restart
    <3>1. JobsOK'
      BY <2>3 DEF Restart, AllIdle, Idle, JobsOK, Jobs, Ops, OnUser, Names, Args
    <3>2. MapsOK'
      BY <2>0, <2>3 DEF Restart, MapsOK, LoadFriends, BothWays, NoRequests,
                        NobodyOnline, Names
    <3>3. LinksOK'
      BY <2>0, <2>3 DEF Restart, LinksOK, AllClosed, NoSessionIDs
    <3> QED BY <2>a, <3>1, <3>2, <3>3
  <2>4. CASE UNCHANGED vars
    BY <2>4 DEF vars, TypeOK
  <2> QED BY <2>1, <2>2, <2>3, <2>4, BeginTypes, HandleTypes DEF Next
<1> QED BY <1>1, <1>2, PTL DEF Spec

-----------------------------------------------------------------------------
(* Friendship, pair by pair: mutual and with somebody else; a request is   *)
(* to somebody who is no friend and has made none; and the table has a row *)
(* for each pair, in one order or the other.                               *)
Mutual == \A a, b \in Users :
    <<a, b>> \in friend_mp => a # b /\ <<b, a>> \in friend_mp
Pending == \A a \in Users, b \in Names :
    <<a, b>> \in frireq_mp => /\ a # b
                             /\ <<a, b>> \notin friend_mp
                             /\ <<b, a>> \notin frireq_mp
Mirrored == \A a, b \in Users :
    <<a, b>> \in friend_mp <=> <<a, b>> \in friend_tb \/ <<b, a>> \in friend_tb
FriendInv == Mutual /\ Pending /\ Mirrored

(* What LoadFriends makes of the rows of friend_tb. *)
LEMMA BothWaysPairs ==
    ASSUME NEW S, NEW pairs \in SUBSET (S \X S)
    PROVE  /\ BothWays(pairs) \subseteq S \X S
           /\ \A a, b \in S : <<a, b>> \in BothWays(pairs) <=>
                                 <<a, b>> \in pairs \/ <<b, a>> \in pairs
BY DEF BothWays

(* Every other step leaves friends and requests alone. *)
LEMMA FriendshipSteps ==
    ASSUME [Next]_vars
    PROVE  \/ UNCHANGED friendship
           \/ Restart
           \/ \E c \in Conns : \/ add_friend(c) \/ reply_friend_request(c)
                              \/ delete_friend(c)
<1>1. ASSUME NEW c \in Conns, Begin(c) PROVE UNCHANGED friendship
  BY <1>1 DEF Begin, BeginPublic, BeginWithSession, BeginLogout
<1>2. ASSUME NEW c \in Conns, Handle(c)
      PROVE  \/ UNCHANGED friendship
             \/ add_friend(c) \/ reply_friend_request(c) \/ delete_friend(c)
  BY <1>2 DEF Handle, login, regis, LGT, send_message, ReadySelect, ReadyDelete,
              AvatarTell, AvatarDone, reconnect, DropRemove, DropForget
<1> QED BY <1>1, <1>2 DEF Next, Accept, CloseBegin, CloseEnd, vars, friendship

(* The three survive every handler and every restart. *)
LEMMA FriendInvariant == Spec => []FriendInv
<1> USE ChatAssumption
<1>1. Init => FriendInv
  BY DEF Init, FriendInv, Mutual, Pending, Mirrored, NoRequests, LoadFriends, BothWays
<1>2. TypeOK /\ FriendInv /\ [Next]_vars => FriendInv'
  <2> SUFFICES ASSUME TypeOK, FriendInv, [Next]_vars PROVE FriendInv'
    OBVIOUS
  <2>0. /\ friend_mp \subseteq Users \X Users /\ friend_tb \subseteq Users \X Users
        /\ frireq_mp \subseteq Users \X Names
    BY DEF TypeOK, Rows
  <2>a. ASSUME NEW c \in Conns,
               add_friend(c) \/ reply_friend_request(c) \/ delete_friend(c)
        PROVE  job[c].name \in Names /\ job[c].arg \in Users
    <3>1. job[c].op \in OnUser
      BY <2>a DEF add_friend, reply_friend_request, delete_friend, At, OnUser
    <3>2. job[c] \in Jobs /\ job[c].arg \in Args(job[c].op)
      BY DEF TypeOK
    <3> QED BY <3>1, <3>2 DEF Jobs, Args
  <2> USE DEF FriendInv, Mutual, Pending, Mirrored
  <2>1. CASE UNCHANGED friendship
    BY <2>1 DEF friendship
  <2>2. CASE Restart
    <3>1. /\ frireq_mp' = {} /\ friend_tb' = friend_tb
          /\ friend_mp' = BothWays(friend_tb)
      BY <2>2 DEF Restart, NoRequests, LoadFriends
    <3>2. \A a, b \in Users : <<a, b>> \in friend_mp' <=> <<a, b>> \in friend_mp
      BY <2>0, <3>1, BothWaysPairs
    <3> QED BY <3>1, <3>2
  <2>3. ASSUME NEW c \in Conns, add_friend(c) PROVE FriendInv'
    <3> DEFINE m == job[c].name  t == job[c].arg
    <3>1. m \in Names /\ t \in Users
      BY <2>a, <2>3
    <3>2. friend_mp' = friend_mp /\ friend_tb' = friend_tb
      BY <2>3 DEF add_friend
    <3>3. CASE ~MayAsk(m, t)
      BY <2>3, <3>2, <3>3 DEF add_friend
    <3>4. CASE MayAsk(m, t)
      <4>1. frireq_mp' = frireq_mp \cup {<<t, m>>}
        BY <2>3, <3>4 DEF add_friend
      <4>2. /\ t # m /\ <<t, m>> \notin friend_mp
            /\ <<t, m>> \notin frireq_mp /\ <<m, t>> \notin frireq_mp
        BY <3>4 DEF MayAsk
      <4> HIDE DEF m, t
      <4> QED BY <3>1, <3>2, <4>1, <4>2
    <3> QED BY <3>3, <3>4
  <2>4. ASSUME NEW c \in Conns, reply_friend_request(c) PROVE FriendInv'
    <3> DEFINE m == job[c].name  t == job[c].arg
    <3>1. m \in Names /\ t \in Users
      BY <2>a, <2>4
    <3>2. frireq_mp' = frireq_mp \ {<<m, t>>}
      BY <2>4 DEF reply_friend_request
    <3>3. CASE UNCHANGED <<friend_mp, friend_tb>>
      BY <3>2, <3>3
    <3>4. CASE Answers(m, t) /\ Befriend(m, t)
      <4>1. /\ m \in Users /\ m # t
            /\ <<m, t>> \in frireq_mp /\ <<t, m>> \notin frireq_mp
        <5>1. <<m, t>> \in frireq_mp
          BY <3>4 DEF Answers
        <5> HIDE DEF m, t
        <5> QED BY <2>0, <3>1, <5>1
      <4>2. /\ friend_tb' = friend_tb \cup {<<m, t>>}
            /\ friend_mp' = friend_mp \cup {<<m, t>>, <<t, m>>}
        BY <3>4 DEF Befriend, BothWays
      <4> HIDE DEF m, t
      <4>3. Mutual'
        BY <3>1, <4>1, <4>2
      <4>4. Pending'
        BY <3>1, <3>2, <4>1, <4>2
      <4>5. Mirrored'
        BY <3>1, <4>1, <4>2
      <4> QED BY <4>3, <4>4, <4>5
    <3> QED BY <2>4, <3>3, <3>4 DEF reply_friend_request
  <2>5. ASSUME NEW c \in Conns, delete_friend(c) PROVE FriendInv'
    <3> DEFINE m == job[c].name  t == job[c].arg
    <3>1. m \in Names /\ t \in Users
      BY <2>a, <2>5
    <3>2. UNCHANGED frireq_mp
      BY <2>5 DEF delete_friend
    <3>3. CASE UNCHANGED <<friend_mp, friend_tb>>
      BY <3>2, <3>3
    <3>4. CASE /\ friend_tb' = friend_tb \ RowsOf(m, t)
               /\ friend_mp' = friend_mp \ BothWays({<<m, t>>})
      <4>1. /\ friend_tb' = friend_tb \ {<<m, t>>, <<t, m>>}
            /\ friend_mp' = friend_mp \ {<<m, t>>, <<t, m>>}
        BY <3>4 DEF RowsOf, BothWays
      <4> HIDE DEF m, t
      <4> QED BY <3>1, <3>2, <4>1
    <3> QED BY <2>5, <3>3, <3>4 DEF delete_friend
  <2> QED BY <2>1, <2>2, <2>3, <2>4, <2>5, FriendshipSteps
<1> QED BY <1>1, <1>2, TypeCorrect, PTL DEF Spec

(* Friends are friends of each other, and nobody is his own, whatever      *)
(* requests, answers, deletions and restarts interleave.                   *)
THEOREM FriendsCorrect == Spec => []FriendsSound
<1>1. TypeOK /\ FriendInv => FriendsSound
  BY DEF TypeOK, FriendInv, Mutual, FriendsSound
<1> QED BY <1>1, TypeCorrect, FriendInvariant, PTL

(* No request waits between friends, nor both ways at once. *)
THEOREM RequestsCorrect == Spec => []RequestsSound
<1>1. TypeOK /\ FriendInv => RequestsSound
  BY DEF TypeOK, Rows, FriendInv, Pending, RequestsSound
<1> QED BY <1>1, TypeCorrect, FriendInvariant, PTL

-----------------------------------------------------------------------------
(* Accounts and sessions: the maps are what the tables say, but for empty  *)
(* names under dead ids; an id that was not issued is in no map and on no  *)
(* connection; and who is on line has a session.                           *)
SameAccounts == user_tb = user_mp
SameSessions == \A s \in Sids : IF sessionID_tb[s] = NULL
                                THEN sessionID_mp[s] \in {NULL, NoName}
                                ELSE sessionID_mp[s] = sessionID_tb[s]
Issued == /\ \A s \in Sids \ used : sessionID_mp[s] = NULL
          /\ \A c \in Conns : m_sessionID[c] \in used \cup {NoName}
SessionInv == SameAccounts /\ SameSessions /\ Issued /\ OnlineHasSession

(* The four survive every handler, close and restart. *)
LEMMA SessionInvariant == Spec => []SessionInv
<1> USE ChatAssumption
<1>1. Init => SessionInv
  BY DEF Init, SessionInv, SameAccounts, SameSessions, Issued, OnlineHasSession,
         NobodyOnline, NoSessionIDs
<1>2. TypeOK /\ SessionInv /\ [Next]_vars => SessionInv'
  <2> SUFFICES ASSUME TypeOK, SessionInv, [Next]_vars PROVE SessionInv'
    OBVIOUS
  <2>0. /\ used \subseteq Sids
        /\ sessionID_mp \in [Sids -> Names \cup {NULL}]
        /\ sessionID_tb \in [Sids -> Users \cup {NULL}]
        /\ userfd_mp \in [Names -> Conns \cup {Closed, NULL}]
        /\ m_sessionID \in [Conns -> Sids \cup {NoName}]
    BY DEF TypeOK
  <2>b. ASSUME NEW c \in Conns
        PROVE  /\ login(c) => job[c].arg \in Users
               /\ reconnect(c) => job[c].arg \in Sids
    <3>1. job[c].arg \in Args(job[c].op)
      BY DEF TypeOK
    <3>2. Args("LGN") = Users /\ Args("RCN") = Sids
      BY DEF Args, OnUser
    <3> QED BY <3>1, <3>2 DEF login, reconnect, At
  <2> USE DEF SessionInv, SameAccounts, SameSessions, Issued, OnlineHasSession
  \* A logout, by a request or by the end of the connection.
  <2>a. ASSUME NEW s, Logout(s), UNCHANGED <<account, m_sessionID>>
        PROVE  SessionInv'
    <3>0. UNCHANGED <<user_mp, user_tb, used, m_sessionID>>
      BY <2>a DEF Logout, account
    <3>1. CASE s \in Sids /\ sessionID_mp[s] # NULL
      <4>1. sessionID_mp[s] \in Names
        BY <2>0, <3>1
      <4>2. /\ sessionID_mp' = [sessionID_mp EXCEPT ![s] = NULL]
            /\ sessionID_tb' = [sessionID_tb EXCEPT ![s] = NULL]
            /\ userfd_mp' = [userfd_mp EXCEPT ![sessionID_mp[s]] = NULL]
        BY <2>a, <3>1 DEF Logout
      <4>3. \A r \in Sids :
               /\ sessionID_mp'[r] = IF r = s THEN NULL ELSE sessionID_mp[r]
               /\ sessionID_tb'[r] = IF r = s THEN NULL ELSE sessionID_tb[r]
        BY <2>0, <4>2
      <4>4. \A u \in Names :
               userfd_mp'[u] = IF u = sessionID_mp[s] THEN NULL ELSE userfd_mp[u]
        BY <2>0, <4>1, <4>2
      <4> QED BY <3>0, <3>1, <4>1, <4>3, <4>4
    <3>2. CASE ~(s \in Sids /\ sessionID_mp[s] # NULL)
      BY <2>a, <3>0, <3>2 DEF Logout
    <3> QED BY <3>1, <3>2
  <2>1. CASE UNCHANGED <<account, session, m_sessionID>>
    BY <2>1 DEF account, session
  <2>2. ASSUME NEW c \in Conns, Accept(c) PROVE SessionInv'
    <3>1. UNCHANGED <<user_mp, user_tb, sessionID_mp, sessionID_tb, userfd_mp, used>>
      BY <2>2 DEF Accept, account, session
    <3>2. \A d \in Conns : m_sessionID'[d] \in {m_sessionID[d], NoName}
      BY <2>0, <2>2 DEF Accept
    <3> QED BY <3>1, <3>2
  <2>3. CASE CloseEnd \/ \E c \in Conns : LGT(c)
    BY <2>3, <2>a DEF CloseEnd, LGT, link
  <2>4. CASE Restart
    BY <2>0, <2>4 DEF Restart, NobodyOnline, NoSessionIDs
  <2>5. ASSUME NEW c \in Conns, NEW op, NEW arg, BeginWithSession(c, op, arg)
        PROVE  SessionInv'
    <3> DEFINE s == m_sessionID[c]
    <3>1. UNCHANGED <<user_mp, user_tb, sessionID_tb, userfd_mp, used, m_sessionID>>
      BY <2>5 DEF BeginWithSession, account, link
    <3>2. s \in used /\ s \in Sids
      BY <2>0, <2>5 DEF BeginWithSession
    <3>3. \A r \in Sids : sessionID_mp'[r] = IF r = s /\ sessionID_mp[s] = NULL
                                             THEN NoName ELSE sessionID_mp[r]
      BY <2>0, <2>5, <3>2 DEF BeginWithSession, NameOf
    <3> HIDE DEF s
    <3>4. SameSessions'
      BY <2>0, <3>1, <3>2, <3>3
    <3>5. OnlineHasSession'
      BY <2>0, <3>1, <3>2, <3>3 DEF Names
    <3> QED BY <3>1, <3>2, <3>3, <3>4, <3>5
  <2>6. ASSUME NEW c \in Conns, login(c) PROVE SessionInv'
    <3>0. UNCHANGED <<user_mp, user_tb>>
      BY <2>6 DEF login, account
    <3>1. CASE UNCHANGED <<session, m_sessionID>>
      BY <3>0, <3>1 DEF session
    <3>2. CASE \E s \in Sids \ used :
                  /\ used' = used \cup {s}
                  /\ m_sessionID' = [m_sessionID EXCEPT ![c] = s]
                  /\ sessionID_mp' = [sessionID_mp EXCEPT ![s] = job[c].arg]
                  /\ sessionID_tb' = [sessionID_tb EXCEPT ![s] = job[c].arg]
                  /\ userfd_mp' = [userfd_mp EXCEPT ![job[c].arg] = m_sockfd[c]]
      <4> DEFINE u == job[c].arg
      <4>1. PICK s \in Sids \ used :
                  /\ used' = used \cup {s}
                  /\ m_sessionID' = [m_sessionID EXCEPT ![c] = s]
                  /\ sessionID_mp' = [sessionID_mp EXCEPT ![s] = u]
                  /\ sessionID_tb' = [sessionID_tb EXCEPT ![s] = u]
                  /\ userfd_mp' = [userfd_mp EXCEPT ![u] = m_sockfd[c]]
        BY <3>2
      <4>2. u \in Users /\ u \in Names /\ u # NULL
        BY <2>b, <2>6 DEF Names
      <4> HIDE DEF u
      <4>3. \A r \in Sids :
               /\ sessionID_mp'[r] = IF r = s THEN u ELSE sessionID_mp[r]
               /\ sessionID_tb'[r] = IF r = s THEN u ELSE sessionID_tb[r]
        BY <2>0, <4>1
      <4>4. /\ \A v \in Names : v # u => userfd_mp'[v] = userfd_mp[v]
            /\ \A d \in Conns : m_sessionID'[d] \in {m_sessionID[d], s}
        BY <2>0, <4>1
      <4>5. sessionID_mp[s] = NULL
        BY <4>1
      <4>6. SameSessions' /\ Issued'
        <5> HIDE DEF OnlineHasSession
        <5>1. SameSessions'
          BY <4>2, <4>3
        <5>2. Issued'
          BY <4>1, <4>3, <4>4
        <5> QED BY <5>1, <5>2
      <4>7. OnlineHasSession'
        <5> SUFFICES ASSUME NEW v \in Names, userfd_mp'[v] # NULL
                     PROVE  \E r \in Sids : sessionID_mp'[r] = v
          OBVIOUS
        <5>1. CASE v = u
          BY <4>3, <5>1
        <5>2. CASE v # u
          <6>1. PICK r \in Sids : sessionID_mp[r] = v
            BY <4>4, <5>2
          <6>2. r # s
            BY <4>5, <6>1 DEF Names
          <6> QED BY <4>3, <6>1, <6>2
        <5> QED BY <5>1, <5>2
      <4> QED BY <3>0, <4>6, <4>7
    <3> QED BY <2>6, <3>1, <3>2 DEF login
  <2>7. ASSUME NEW c \in Conns, regis(c) PROVE SessionInv'
    BY <2>7 DEF regis, session, link
  <2>8. ASSUME NEW c \in Conns, reconnect(c) PROVE SessionInv'
    <3> DEFINE s == job[c].arg  u == sessionID_mp[s]
    <3>0. UNCHANGED <<user_mp, user_tb, sessionID_mp, sessionID_tb, used>>
      BY <2>8 DEF reconnect, account
    <3>1. CASE u = NULL
      BY <2>8, <3>0, <3>1 DEF reconnect
    <3>2. CASE u # NULL
      <4>1. s \in used /\ s \in Sids
        BY <2>b, <2>8, <3>2
      <4>2. /\ \A v \in Names : v # u => userfd_mp'[v] = userfd_mp[v]
            /\ \A d \in Conns : m_sessionID'[d] \in {m_sessionID[d], s}
        BY <2>0, <2>8, <3>2 DEF reconnect
      <4> QED BY <3>0, <4>1, <4>2
    <3> QED BY <3>1, <3>2
  <2>9. ASSUME NEW c \in Conns, Begin(c)
        PROVE  \/ UNCHANGED <<account, session, m_sessionID>>
               \/ \E op, arg : BeginWithSession(c, op, arg)
    BY <2>9 DEF Begin, BeginPublic, BeginLogout, link
  <2>10. ASSUME NEW c \in Conns, Handle(c)
         PROVE  \/ UNCHANGED <<account, session, m_sessionID>>
                \/ login(c) \/ regis(c) \/ LGT(c) \/ reconnect(c)
    BY <2>10 DEF Handle, add_friend, reply_friend_request, delete_friend,
                 send_message, ReadySelect, ReadyDelete, AvatarTell, AvatarDone,
                 DropRemove, DropForget, link
  <2>11. ASSUME NEW c \in Conns, CloseBegin(c)
         PROVE  UNCHANGED <<account, session, m_sessionID>>
    BY <2>11 DEF CloseBegin
  <2>12. CASE UNCHANGED vars
    BY <2>12, <2>1 DEF vars, account, session
  <2> QED
    BY <2>1, <2>2, <2>3, <2>4, <2>5, <2>6, <2>7, <2>8, <2>9, <2>10, <2>11, <2>12
    DEF Next
<1> QED BY <1>1, <1>2, TypeCorrect, PTL DEF Spec

(* Whoever is shown on line has a session that can end it. *)
THEOREM OnlineCorrect == Spec => []OnlineHasSession
BY SessionInvariant, PTL DEF SessionInv

(* Between handlers, a restart would load what is in memory, ids of no     *)
(* session excepted.                                                       *)
THEOREM TablesCorrect == Spec => []TablesMatchMemory
<1>1. TypeOK /\ FriendInv /\ SessionInv => TablesMatchMemory
  <2> SUFFICES ASSUME TypeOK, FriendInv, SessionInv PROVE TablesMatchMemory
    OBVIOUS
  <2>1. friend_mp = BothWays(friend_tb)
    <3>1. friend_mp \subseteq Users \X Users /\ friend_tb \subseteq Users \X Users
      BY DEF TypeOK
    <3>2. \A a, b \in Users :
             <<a, b>> \in friend_mp <=> <<a, b>> \in BothWays(friend_tb)
      BY <3>1, BothWaysPairs DEF FriendInv, Mirrored
    <3> QED BY <3>1, <3>2, BothWaysPairs
  <2> QED BY <2>1 DEF SessionInv, SameAccounts, SameSessions, TablesMatchMemory
<1> QED BY <1>1, TypeCorrect, FriendInvariant, SessionInvariant, PTL

(* No restart forgets an account or a friendship, or brings one back. *)
THEOREM RestartCorrect == Spec => RestartKeepsAccounts
<1>1. TablesMatchMemory =>
          (Restart => user_mp' = user_mp /\ friend_mp' = friend_mp)
  BY DEF TablesMatchMemory, Restart, LoadFriends
<1> QED BY <1>1, TablesCorrect, PTL DEF RestartKeepsAccounts
=============================================================================
