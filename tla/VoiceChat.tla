----------------------------- MODULE VoiceChat ------------------------------
(***************************************************************************)
(* Voice calls: the four maps of request_process.cpp that say who is in a  *)
(* call with whom, which chat id each of them was given and from which     *)
(* address an id's packets come; the handlers that change them under the   *)
(* global mutex, and handleUdpPack(), which the event loop runs and which  *)
(* takes the mutex only for its second half.                               *)
(*                                                                         *)
(* A map is a function onto NoEntry where it has no entry.  Which users    *)
(* are on line is ChatService's subject: here they come and go.  A handler *)
(* reads its user's name before it takes the mutex, so that the user may   *)
(* be off line by then, and the name is "" if the session was gone.        *)
(*                                                                         *)
(* What EventLoop has by the same name is prefixed, so that one module can *)
(* extend both.                                                            *)
(***************************************************************************)
CONSTANTS Users,
          Friends,    \* friend_mp, as a set of pairs
          Ids,        \* what rand() % 1000000000 may yield
          Zero,       \* 0, the id operator[] makes up
          NoName,     \* ""
          NoEntry,
          Garbage     \* an address that is not the sender's

ASSUME VoiceAssumption == /\ NoName \notin Users
                          /\ NoEntry \notin Users \cup Ids \cup {NoName, Garbage}
                          /\ Garbage \notin Users
                          /\ Zero \in Ids /\ Friends \subseteq Users \X Users

VARIABLES voice_chat_mp, voice_id_to_user_mp, user_to_voice_id_mp,
          voice_id_sockaddr_mp,
          online,        \* the keys of userfd_mp
          told,          \* the ids each client has been sent
          pack,          \* the UDP packet handleUdpPack() is working on
          heard,         \* the address it has passed the last one on to
          sound,         \* history: no draw repeated an id or gave 0, and
                         \* recvfrom() always filled in the address
          again          \* history: a call was accepted while ids were out

udp == <<pack, heard>>
ids == <<voice_id_to_user_mp, user_to_voice_id_mp>>
voice == <<voice_chat_mp, voice_id_to_user_mp, user_to_voice_id_mp,
           voice_id_sockaddr_mp, online, told, pack, heard, sound, again>>

Names == Users \cup {NoName}
NoPack == NoEntry
Has(map, key) == map[key] # NoEntry
Drawn == UNION {told[u] : u \in Users}    \* the ids given out so far

VoiceInit == /\ voice_chat_mp = [u \in Names |-> NoEntry]
             /\ voice_id_to_user_mp = [i \in Ids |-> NoEntry]
             /\ user_to_voice_id_mp = [u \in Names |-> NoEntry]
             /\ voice_id_sockaddr_mp = [i \in Ids |-> NoEntry]
             /\ online = {} /\ told = [u \in Users |-> {}]
             /\ pack = NoPack /\ heard = NoEntry
             /\ sound = TRUE /\ again = FALSE

(* Logins, logouts and lost connections; none of them touches a call. *)
Online(u) == /\ u \notin online
             /\ online' = online \cup {u}
             /\ UNCHANGED <<voice_chat_mp, ids, voice_id_sockaddr_mp, told, udp, sound,
                            again>>

Offline(u) == /\ u \in online
              /\ online' = online \ {u}
              /\ UNCHANGED <<voice_chat_mp, ids, voice_id_sockaddr_mp, told, udp,
                             sound, again>>

-----------------------------------------------------------------------------
(* Mutant of start_voice_chat: friendship is not looked up. *)
StartWithAnyone(u, tar) ==
    /\ tar # u
    /\ ~Has(voice_chat_mp, u) /\ ~Has(voice_chat_mp, tar)
    /\ tar \in online
    /\ voice_chat_mp' = [voice_chat_mp EXCEPT ![u] = tar, ![tar] = u]
    /\ UNCHANGED <<ids, voice_id_sockaddr_mp, online, told, udp, sound, again>>

start_voice_chat(u, tar) ==
    /\ tar # u /\ <<u, tar>> \in Friends
    /\ ~Has(voice_chat_mp, u) /\ ~Has(voice_chat_mp, tar)
    /\ tar \in online
    /\ voice_chat_mp' = [voice_chat_mp EXCEPT ![u] = tar, ![tar] = u]
    /\ UNCHANGED <<ids, voice_id_sockaddr_mp, online, told, udp, sound, again>>

(* operator[] in reply_voice_chat() enters a call with "" for a user who   *)
(* has none; "" is not on line, and the handler does no more.              *)
ReplyWithoutCall(u) ==
    /\ ~Has(voice_chat_mp, u)
    /\ voice_chat_mp' = [voice_chat_mp EXCEPT ![u] = NoName]
    /\ UNCHANGED <<ids, voice_id_sockaddr_mp, online, told, udp, sound, again>>

(* reply_voice_chat() with '1', by either side of the call: the two draws  *)
(* are made before either id is entered, so they may be the same.          *)
AcceptCall(u, a, b) ==
    LET tar == voice_chat_mp[u]
        other == [voice_id_to_user_mp EXCEPT ![a] = u]
    IN /\ Has(voice_chat_mp, u) /\ tar \in online
       /\ ~Has(voice_id_to_user_mp, a) /\ ~Has(voice_id_to_user_mp, b)
       /\ voice_id_to_user_mp' = [other EXCEPT ![b] = tar]
       /\ user_to_voice_id_mp' = [user_to_voice_id_mp EXCEPT ![u] = a, ![tar] = b]
       /\ told' = [told EXCEPT ![u] = @ \cup {a}, ![tar] = @ \cup {b}]
       /\ sound' = (sound /\ a # b /\ {a, b} \cap (Drawn \cup {Zero}) = {})
       /\ again' = (again \/ \E v \in {u, tar} : Has(user_to_voice_id_mp, v))
       /\ UNCHANGED <<voice_chat_mp, voice_id_sockaddr_mp, online, udp>>

(* Mutant of Reject: only the caller's side of the call is erased. *)
RejectOneSide(u) ==
    LET tar == voice_chat_mp[u]
    IN /\ Has(voice_chat_mp, u) /\ tar \in online
       /\ voice_chat_mp' = [voice_chat_mp EXCEPT ![tar] = NoEntry]
       /\ UNCHANGED <<ids, voice_id_sockaddr_mp, online, told, udp,
                      sound, again>>

(* reply_voice_chat() with '0': the call is erased, ids are not. *)
Reject(u) ==
    LET tar == voice_chat_mp[u]
    IN /\ Has(voice_chat_mp, u) /\ tar \in online
       /\ voice_chat_mp' = [voice_chat_mp EXCEPT ![u] = NoEntry, ![tar] = NoEntry]
       /\ UNCHANGED <<ids, voice_id_sockaddr_mp, online, told, udp,
                      sound, again>>

(* user_to_voice_id_mp[u], which is 0 for a user without an id. *)
IdOf(u) == IF Has(user_to_voice_id_mp, u) THEN user_to_voice_id_mp[u] ELSE Zero

Erase(map, keys) == [k \in DOMAIN map |-> IF k \in keys THEN NoEntry ELSE map[k]]

(* Mutant of end_voice_chat: the users' ids are erased before they are     *)
(* looked up in order to erase the ids' users.                             *)
EndIdsFirst(u) ==
    LET pair == {u, voice_chat_mp[u]}
    IN /\ Has(voice_chat_mp, u)
       /\ voice_chat_mp' = Erase(voice_chat_mp, pair)
       /\ voice_id_sockaddr_mp' = Erase(voice_id_sockaddr_mp, {IdOf(v) : v \in pair})
       /\ voice_id_to_user_mp' = Erase(voice_id_to_user_mp, {Zero})
       /\ user_to_voice_id_mp' = Erase(user_to_voice_id_mp, pair)
       /\ UNCHANGED <<online, told, udp, sound, again>>

end_voice_chat(u) ==
    LET pair == {u, voice_chat_mp[u]}
        dead == {IdOf(v) : v \in pair}
    IN /\ Has(voice_chat_mp, u)
       /\ voice_chat_mp' = Erase(voice_chat_mp, pair)
       /\ voice_id_sockaddr_mp' = Erase(voice_id_sockaddr_mp, dead)
       /\ voice_id_to_user_mp' = Erase(voice_id_to_user_mp, dead)
       /\ user_to_voice_id_mp' = Erase(user_to_voice_id_mp, pair)
       /\ UNCHANGED <<online, told, udp, sound, again>>

-----------------------------------------------------------------------------
(* handleUdpPack(), without the mutex: a packet of client u bearing an id  *)
(* it was sent, now or in an earlier call, enters the address if the id    *)
(* has none.  recvfrom() is given an uninitialised address length and may  *)
(* leave the address as it was.                                            *)
Receive(u, i, from) ==
    /\ pack = NoPack /\ i \in told[u] /\ from \in {u, Garbage}
    /\ pack' = [user |-> u, id |-> i] /\ heard' = NoEntry
    /\ voice_id_sockaddr_mp' =
           IF Has(voice_id_sockaddr_mp, i) THEN voice_id_sockaddr_mp
           ELSE [voice_id_sockaddr_mp EXCEPT ![i] = from]
    /\ sound' = (sound /\ from = u)
    /\ UNCHANGED <<voice_chat_mp, ids, online, told, again>>

(* Mutant of Listener: the packet goes back to the one who sent it. *)
ListenerEcho(i) ==
    LET u == voice_id_to_user_mp[i]
    IN IF /\ u # NoEntry /\ Has(voice_chat_mp, u)
          /\ Has(user_to_voice_id_mp, u)
       THEN voice_id_sockaddr_mp[user_to_voice_id_mp[u]]
       ELSE NoEntry

(* The address a packet with id i is passed on to, if there is one. *)
Listener(i) ==
    LET u == voice_id_to_user_mp[i]
    IN IF /\ u # NoEntry /\ Has(voice_chat_mp, u)
          /\ Has(user_to_voice_id_mp, voice_chat_mp[u])
       THEN voice_id_sockaddr_mp[user_to_voice_id_mp[voice_chat_mp[u]]]
       ELSE NoEntry

(* handleUdpPack(), under the mutex, and the sendto() that follows. *)
Route == /\ pack # NoPack
         /\ pack' = NoPack /\ heard' = Listener(pack.id)
         /\ UNCHANGED <<voice_chat_mp, ids, voice_id_sockaddr_mp, online, told,
                        sound, again>>

VoiceNext == \/ \E u \in Users : Online(u) \/ Offline(u)
             \/ \E u, tar \in Names : start_voice_chat(u, tar)
             \/ \E u \in Names : ReplyWithoutCall(u) \/ Reject(u) \/ end_voice_chat(u)
             \/ \E u \in Names, a, b \in Ids : AcceptCall(u, a, b)
             \/ \E u \in Users, i \in Ids, from \in Users \cup {Garbage} :
                    Receive(u, i, from)
             \/ Route

VoiceSpec == VoiceInit /\ [][VoiceNext]_voice

-----------------------------------------------------------------------------
VoiceTypeOK ==
    /\ voice_chat_mp \in [Names -> Names \cup {NoEntry}]
    /\ voice_chat_mp[NoName] \in {NoName, NoEntry}    \* no user's partner
    /\ voice_id_to_user_mp \in [Ids -> Users \cup {NoEntry}]
    /\ user_to_voice_id_mp \in [Names -> Ids \cup {NoEntry}]
    /\ user_to_voice_id_mp[NoName] = NoEntry
    /\ voice_id_sockaddr_mp \in [Ids -> Users \cup {Garbage, NoEntry}]
    /\ online \subseteq Users /\ told \in [Users -> SUBSET Ids]
    /\ pack \in [user : Users, id : Ids] \cup {NoPack}
    /\ heard \in Users \cup {Garbage, NoEntry}
    /\ sound \in BOOLEAN /\ again \in BOOLEAN

(* A call has two sides: however calls are started, answered, rejected and *)
(* ended by users who come and go, a user whose call is with another is    *)
(* the one the other's call is with, and so nobody is in two calls.        *)
CallsMutual ==
    \A u \in Users : voice_chat_mp[u] \in Users =>
                         voice_chat_mp[voice_chat_mp[u]] = u

(* As long as the draws are new, the id a user has leads back to the user; *)
(* and as long as no call is accepted twice, no other id does.             *)
IdsBothWays ==
    sound =>
        /\ \A u \in Users : Has(user_to_voice_id_mp, u) =>
               voice_id_to_user_mp[user_to_voice_id_mp[u]] = u
        /\ ~again => \A i \in Ids : Has(voice_id_to_user_mp, i) =>
               user_to_voice_id_mp[voice_id_to_user_mp[i]] = i

(* What a client says is heard, if by anybody, by the one its call is with *)
(* when the packet is routed: also a packet that bears the id of a call    *)
(* that has ended, or of which the address was entered after the end.      *)
PartnerHears ==
    [][Route /\ sound /\ heard' # NoEntry =>
           heard' = voice_chat_mp[pack.user]]_voice
=============================================================================
