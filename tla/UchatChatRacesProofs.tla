------------------------ MODULE UchatChatRacesProofs ------------------------
(***************************************************************************)
(* Proof that nothing but a race, or a look-up that failed, makes two      *)
(* chats of the same two users.  It rests on what UchatSafetyProofs shows  *)
(* of the chats: those that threads fill at one time are different ones.   *)
(***************************************************************************)
EXTENDS UchatChatRaces, UchatSafetyProofs

\* OnlyRacesDuplicate is not inductive: it does not say what a thread that has found no
\* chat may still count on when it comes to insert its own.
RacesInv ==
    /\ OnlyRacesDuplicate
    /\ \A s \in Sessions : Creates(s) =>
          \/ Pair(s) \in raced
          \/ \A c \in CompleteChats : ChatMembers(c) # Pair(s)
    /\ \A p : IsCreatedTwice(p) => p \in raced

----------------------------------------------------------------------------
(* The steps of a thread *)

\* The other requests lead to no INSERT of a chat.
LEMMA OthersCreateNone ==
    ASSUME TypeInv, NEW s \in Sessions,
           \/ \E r \in Requests : Receive(s, r)
           \/ WriteResponse(s) \/ DatabaseFails(s) \/ Auth(s) \/ Message(s)
    PROVE  ~Creates(s)' /\ UNCHANGED <<chats, members>>
<1> DEFINE Creating == {"insert_chat", "insert_current_user", "insert_invitee_user"}
<1>1. ASSUME NEW r \in Requests, Receive(s, r)
      PROVE  pc'[s] \notin Creating /\ UNCHANGED <<chats, members>>
  <2>1. UNCHANGED <<chats, members>> /\ pc[s] = "recv"
    BY <1>1 DEF Receive, tables
  <2>2. CASE r.type \in SilentTypes
    BY <1>1, <2>1, <2>2 DEF Receive
  <2>3. CASE r.type \notin SilentTypes /\ IsMalformed(r)
    <3>1. pc'[s] = "respond"
      BY <1>1, <2>3, Answering DEF Receive
    <3> QED  BY <2>1, <3>1
  <2>4. CASE r.type \notin SilentTypes /\ ~IsMalformed(r)
    <3>1. pc'[s] = FirstStatement[r.type]
      BY <1>1, <2>4, Going, ReceivedFits DEF Receive
    <3>2. FirstStatement[r.type] \in Untracked \cup {"update_message", "remove_message"}
      BY <2>4, ReceivedTypes
    <3> QED  BY <2>1, <3>1, <3>2 DEF Untracked
  <2> QED  BY <2>2, <2>3, <2>4
<1>2. ASSUME WriteResponse(s) \/ DatabaseFails(s)
      PROVE  pc'[s] \notin Creating /\ UNCHANGED <<chats, members>>
  BY <1>2, Answering, Going DEF WriteResponse, DatabaseFails, tables, Labels
<1>3. ASSUME Auth(s)
      PROVE  pc'[s] \notin Creating /\ UNCHANGED <<chats, members>>
  <2>1. pc'[s] \in {"respond", "fetch_new_user", "fetch_updated_user"}
    BY <1>3, Answering, Going DEF Auth, AddUser, FetchNewUser, FetchUser, UpdateUser,
         FetchUpdatedUser, FetchUserList, Labels
  <2>2. UNCHANGED <<chats, members>>
    BY <1>3 DEF Auth, AddUser, FetchNewUser, FetchUser, UpdateUser, FetchUpdatedUser,
         FetchUserList, database_add_user, database_update_user, tables
  <2> QED  BY <2>1, <2>2
<1>4. ASSUME Message(s)
      PROVE  pc'[s] \notin Creating /\ UNCHANGED <<chats, members>>
  <2>1. pc'[s] \in {"respond", "fetch_message"}
    BY <1>4, Answering, Going DEF Message, FetchChatMessages, InsertMessageRow,
         UpdateMessageRow, RemoveMessageRow, FetchMessage, Labels
  <2>2. UNCHANGED <<chats, members>>
    BY <1>4 DEF Message, FetchChatMessages, InsertMessageRow, UpdateMessageRow,
         RemoveMessageRow, FetchMessage, InsertMessage, UpdateMessage, RemoveMessage, tables
  <2> QED  BY <2>1, <2>2
<1> QED  BY <1>1, <1>2, <1>3, <1>4 DEF Creates

\* What has come before the INSERT that a thread is at.
Begins(s) ==
    /\ client_info[s].id # req[s].invitee_user_id
    /\ UNCHANGED <<chats, members>>
    /\ CheckChatUnread(s) \/ ~ChatExists(client_info[s].id, req[s].invitee_user_id)

LEMMA ChatCreates ==
    ASSUME TypeInv, NEW s \in Sessions, Chat(s), Creates(s)'
    PROVE  Pair(s)' = Pair(s) /\ (Creates(s) \/ Begins(s))
<1>1. pc'[s] \in {"insert_chat", "insert_current_user", "insert_invitee_user"}
  BY DEF Creates
<1>2. CASE FetchUsername(s) \/ InsertInviteeUser(s) \/ FetchChat(s) \/ FetchUserChats(s)
  <2>1. pc'[s] \in {"respond", "check_chat", "fetch_chat"}
    BY <1>2, Answering, Going DEF FetchUsername, InsertInviteeUser, FetchChat,
         FetchUserChats, Labels
  <2> QED  BY <1>1, <2>1
<1>3. CASE CheckChat(s) \/ CheckChatUnread(s)
  <2>1. UNCHANGED <<chats, members, client_info, req>>
    BY <1>3 DEF CheckChat, CheckChatUnread, tables
  <2>2. CheckChatUnread(s) \/ ~ChatExists(client_info[s].id, req[s].invitee_user_id)
    <3>1. CASE CheckChat(s) /\ RespondFailure(s)
      <4>1. pc'[s] = "respond"
        BY <3>1, Answering
      <4> QED  BY <1>1, <4>1
    <3> QED  BY <1>3, <3>1 DEF CheckChat
  <2> QED  BY <2>1, <2>2 DEF Creates, Pair, Begins
<1>4. CASE InsertChatRow(s) \/ InsertCurrentUser(s)
  <2>1. /\ pc[s] \in {"insert_chat", "insert_current_user"}
        /\ UNCHANGED <<client_info, req>>
    BY <1>4 DEF InsertChatRow, InsertCurrentUser
  <2> QED  BY <2>1 DEF Creates, Pair
<1> QED  BY <1>2, <1>3, <1>4 DEF Chat

\* Who is about to insert a chat was so before, or has just looked for one.
LEMMA CreatesFollows ==
    ASSUME SafetyInv, [Next]_vars, NEW s \in Sessions, Creates(s)'
    PROVE  Pair(s)' = Pair(s) /\ (Creates(s) \/ Begins(s))
<1>1. CASE Stands(s)
  BY <1>1 DEF Stands, Creates, Pair
<1>2. ~(Die \/ pc'[s] = "recv")
  BY DEF Creates, Die
<1>3. CASE Chat(s)
  BY <1>3, ChatCreates DEF SafetyInv, IdentityInv
<1>4. ~(\/ \E r \in Requests : Receive(s, r)
        \/ WriteResponse(s) \/ DatabaseFails(s) \/ Auth(s) \/ Message(s))
  BY OthersCreateNone DEF SafetyInv, IdentityInv
<1>5. TypeInv /\ \A t \in Sessions : conn[t] = "closed" => pc[t] = "recv"
  BY DEF SafetyInv, IdentityInv, Tracks
<1> QED  BY <1>1, <1>2, <1>3, <1>4, <1>5, Movers

----------------------------------------------------------------------------
(* The chats *)

SameChats ==
    /\ CompleteChats' = CompleteChats
    /\ \A c \in CompleteChats : ChatMembers(c)' = ChatMembers(c)

\* The INSERT that completes chat n, which thread s creates.
Completes(s, n) ==
    /\ Creates(s) /\ ~Creates(s)'
    /\ n \notin CompleteChats /\ CompleteChats' = CompleteChats \cup {n}
    /\ ChatMembers(n)' = Pair(s)
    /\ \A c \in CompleteChats : ChatMembers(c)' = ChatMembers(c)

LEMMA UnwrittenChats ==
    ASSUME UNCHANGED <<chats, members>>
    PROVE  SameChats
  BY DEF SameChats, CompleteChats, ChatMembers

\* What is inserted into the chat that a thread fills.
LEMMA FillsChat ==
    ASSUME SafetyInv, NEW s \in Sessions, BuildsChat(s),
           NEW id, InsertMember(row[s], id), row' = row
    PROVE  /\ row[s] \in 1..chats /\ chats' = chats
           /\ ChatMembers(row[s]) = BuiltSoFar(s) /\ id \notin BuiltSoFar(s)
           /\ ChatMembers(row[s])' = BuiltSoFar(s) \cup {id}
           /\ \A c : c # row[s] => ChatMembers(c)' = ChatMembers(c)
<1>1. /\ row[s] \in 1..chats /\ ChatMembers(row[s]) = BuiltSoFar(s)
      /\ DatabaseTypeOK
  BY DEF SafetyInv, IdentityInv, ChatsKeepToTheirPair, TypeInv, TypeOK
<1>2. PICK c : c = row[s]
  OBVIOUS
<1>3. c = row'[s] /\ InsertMember(c, id)
  BY <1>2
<1>4. /\ ChatMembers(c)' = ChatMembers(c) \cup {id}
      /\ id \notin ChatMembers(c)
      /\ \A d : d # c => ChatMembers(d)' = ChatMembers(d)
  BY <1>1, <1>3, InsertedMember
<1> QED  BY <1>1, <1>2, <1>3, <1>4 DEF InsertMember

\* A chat is complete with its second member.
LEMMA ChatsFollow ==
    ASSUME SafetyInv, [Next]_vars
    PROVE  SameChats \/ \E s \in Sessions, n \in Nat : Completes(s, n)
<1>1. ASSUME NEW s \in Sessions, InsertChatRow(s)
      PROVE  SameChats
  <2>1. chats \in Nat /\ chats' = chats + 1 /\ UNCHANGED members
    BY <1>1 DEF InsertChatRow, InsertChat, SafetyInv, IdentityInv, TypeInv, TypeOK,
         DatabaseTypeOK
  <2>2. ChatMembers(chats + 1) = {}
    BY <2>1 DEF ChatMembers, SafetyInv, IdentityInv, TypeInv, TypeOK, DatabaseTypeOK
  <2>3. \A c : ChatMembers(c)' = ChatMembers(c)
    BY <2>1 DEF ChatMembers
  <2>4. 1..chats' = (1..chats) \cup {chats + 1}
    BY <2>1
  <2> QED  BY <2>2, <2>3, <2>4 DEF SameChats, CompleteChats
<1>2. ASSUME NEW s \in Sessions, InsertCurrentUser(s)
      PROVE  SameChats
  <2>1. PICK id : id = client_info[s].id
    OBVIOUS
  <2>2. BuildsChat(s) /\ BuiltSoFar(s) = {} /\ InsertMember(row[s], id) /\ row' = row
    BY <1>2, <2>1 DEF InsertCurrentUser, BuildsChat, BuiltSoFar
  <2>3. /\ row[s] \in 1..chats /\ chats' = chats
        /\ ChatMembers(row[s]) = {} /\ ChatMembers(row[s])' = {id}
        /\ \A c : c # row[s] => ChatMembers(c)' = ChatMembers(c)
    BY <2>2, FillsChat
  <2>4. row[s] \notin CompleteChats /\ row[s] \notin CompleteChats'
    BY <2>2, <2>3 DEF CompleteChats
  <2>5. CompleteChats' = CompleteChats
    BY <2>3, <2>4 DEF CompleteChats
  <2> QED  BY <2>3, <2>4, <2>5 DEF SameChats
<1>3. ASSUME NEW s \in Sessions, InsertInviteeUser(s),
             InsertMember(row[s], req[s].invitee_user_id)
      PROVE  \E n \in Nat : Completes(s, n)
  <2>1. PICK id : id = req[s].invitee_user_id
    OBVIOUS
  <2>2. /\ pc[s] = "insert_invitee_user" /\ BuildsChat(s)
        /\ BuiltSoFar(s) = {client_info[s].id}
        /\ InsertMember(row[s], id) /\ UNCHANGED <<row, req, client_info>>
    BY <1>3, <2>1 DEF InsertInviteeUser, BuildsChat, BuiltSoFar
  <2>3. /\ row[s] \in 1..chats /\ chats' = chats
        /\ ChatMembers(row[s]) = {client_info[s].id} /\ id # client_info[s].id
        /\ ChatMembers(row[s])' = {client_info[s].id, id}
        /\ \A c : c # row[s] => ChatMembers(c)' = ChatMembers(c)
    BY <2>2, FillsChat
  <2>4. pc'[s] \in {"respond", "fetch_chat"}
    BY <1>3, Answering, Going DEF InsertInviteeUser, Labels, SafetyInv, IdentityInv
  <2>5. Creates(s) /\ ~Creates(s)'
    BY <2>1, <2>2, <2>3, <2>4 DEF Creates
  <2>6. row[s] \notin CompleteChats
    BY <2>3 DEF CompleteChats
  <2>7. row[s] \in CompleteChats'
    BY <2>2, <2>3 DEF CompleteChats
  <2>8. \A c : c # row[s] => (c \in CompleteChats' <=> c \in CompleteChats)
    BY <2>3 DEF CompleteChats
  <2>9. CompleteChats' = CompleteChats \cup {row[s]}
    BY <2>6, <2>7, <2>8
  <2>10. PICK n \in Nat : n = row[s]
    BY <2>3
  <2>11. n = row'[s]
    BY <2>2, <2>10
  <2>12. ChatMembers(n)' = {client_info[s].id, id}
    BY <2>3, <2>11
  <2>13. \A c \in CompleteChats : ChatMembers(c)' = ChatMembers(c)
    BY <2>3, <2>6
  <2> QED  BY <2>1, <2>5, <2>6, <2>9, <2>10, <2>12, <2>13 DEF Completes, Pair
<1>4. CASE UNCHANGED tables
  BY <1>4, UnwrittenChats DEF tables
<1>5. ASSUME NEW s \in Sessions,
             \/ AddUser(s) /\ database_add_user(req[s].username,
                                                encrypt_password(req[s].password))
             \/ UpdateUser(s) \/ InsertMessageRow(s) \/ UpdateMessageRow(s)
             \/ RemoveMessageRow(s)
      PROVE  SameChats
  BY <1>5, UnwrittenChats DEF database_add_user, UpdateUser, database_update_user,
       InsertMessageRow, InsertMessage, UpdateMessageRow, UpdateMessage, RemoveMessageRow,
       RemoveMessage
<1> QED  BY <1>1, <1>2, <1>3, <1>4, <1>5, Writers

\* The look-up finds the chat of the pair.
LEMMA NoneFound ==
    ASSUME DatabaseTypeOK, NEW a, NEW b, ~ChatExists(a, b)
    PROVE  \A c \in CompleteChats : ChatMembers(c) # {a, b}
<1>1. \A c, v : v \in ChatMembers(c) <=> <<c, v>> \in members
  <2>1. \A p \in members : p = <<p[1], p[2]>>
    BY DEF DatabaseTypeOK
  <2> QED  BY <2>1 DEF ChatMembers
<1> QED  BY <1>1 DEF ChatExists, UserChats, CompleteChats

----------------------------------------------------------------------------
(* The races *)

\* What the history keeps.
LEMMA RacesKept ==
    ASSUME RacesNext
    PROVE  /\ \A p \in raced : p \in Pairs' \/ HasTwoChats(p)' => p \in raced'
           /\ \A p : IsCreatedTwice(p)' => p \in raced'
           /\ \A p \in Pairs' : IsMissed(p) => p \in raced'
<1>1. \A p : IsCreatedTwice(p)' => p \in Pairs'
  BY DEF IsCreatedTwice, Pairs
<1> QED  BY <1>1 DEF RacesNext

LEMMA RacesStep ==
    ASSUME SafetyInv, RacesInv, RacesNext
    PROVE  RacesInv'
<1> [Next]_vars
  BY DEF RacesNext
<1>1. \A s \in Sessions : Creates(s)' => Pair(s)' \in Pairs'
  BY DEF Pairs
<1>2. ASSUME NEW c \in CompleteChats', NEW d \in CompleteChats', c # d,
             ChatMembers(c)' = ChatMembers(d)'
      PROVE  ChatMembers(c)' \in raced'
  <2>3. PICK p : p = ChatMembers(c)'
    OBVIOUS
  <2>1. HasTwoChats(p)'
    BY <1>2, <2>3 DEF HasTwoChats
  <2>2. ChatMembers(c)' \in raced
    <3>1. CASE SameChats
      BY <1>2, <3>1 DEF SameChats, RacesInv, OnlyRacesDuplicate
    <3>2. ASSUME NEW s \in Sessions, NEW n \in Nat, Completes(s, n)
          PROVE  ChatMembers(c)' \in raced
      <4>1. CASE c \in CompleteChats /\ d \in CompleteChats
        BY <1>2, <3>2, <4>1 DEF Completes, RacesInv, OnlyRacesDuplicate
      <4>2. CASE c = n \/ d = n
        <5>1. PICK e \in CompleteChats : ChatMembers(e) = Pair(s)
          BY <1>2, <3>2, <4>2 DEF Completes
        <5>2. ChatMembers(c)' = Pair(s)
          BY <1>2, <3>2, <4>2 DEF Completes
        <5> QED  BY <3>2, <5>1, <5>2 DEF Completes, RacesInv
      <4> QED  BY <3>2, <4>1, <4>2 DEF Completes
    <3> QED  BY <3>1, <3>2, ChatsFollow
  <2> QED  BY <2>1, <2>2, <2>3, RacesKept
<1>3. ASSUME NEW s \in Sessions, Creates(s)'
      PROVE  \/ Pair(s)' \in raced'
             \/ \A c \in CompleteChats' : ChatMembers(c)' # Pair(s)'
  <2>1. Pair(s)' = Pair(s) /\ (Creates(s) \/ Begins(s))
    BY <1>3, CreatesFollows
  <2>2. CASE Begins(s)
    <3>1. SameChats
      BY <2>2, UnwrittenChats DEF Begins
    <3>2. CASE ~ChatExists(client_info[s].id, req[s].invitee_user_id)
      <4>1. DatabaseTypeOK
        BY DEF SafetyInv, IdentityInv, TypeInv, TypeOK
      <4>2. \A c \in CompleteChats : ChatMembers(c) # Pair(s)
        BY <3>2, <4>1, NoneFound DEF Pair
      <4> QED  BY <2>1, <3>1, <4>2 DEF SameChats
    <3>3. CASE CheckChatUnread(s) /\ ChatExists(client_info[s].id, req[s].invitee_user_id)
      <4>1. IsMissed(Pair(s))
        BY <3>3 DEF IsMissed
      <4> QED  BY <1>1, <1>3, <2>1, <4>1, RacesKept
    <3> QED  BY <2>2, <3>2, <3>3 DEF Begins
  <2>3. CASE Creates(s) /\ Pair(s) \in raced
    BY <1>1, <1>3, <2>1, <2>3, RacesKept
  <2>4. CASE Creates(s) /\ \A c \in CompleteChats : ChatMembers(c) # Pair(s)
    <3>1. CASE SameChats
      BY <2>1, <2>4, <3>1 DEF SameChats
    <3>2. ASSUME NEW t \in Sessions, NEW n \in Nat, Completes(t, n), Pair(t) = Pair(s)
          PROVE  Pair(s) \in raced
      <4>1. IsCreatedTwice(Pair(s))
        BY <1>3, <2>4, <3>2 DEF Completes, IsCreatedTwice
      <4> QED  BY <4>1 DEF RacesInv
    <3>3. ASSUME NEW t \in Sessions, NEW n \in Nat, Completes(t, n), Pair(t) # Pair(s)
          PROVE  \A c \in CompleteChats' : ChatMembers(c)' # Pair(s)
      BY <2>4, <3>3 DEF Completes
    <3> QED  BY <1>1, <1>3, <2>1, <3>1, <3>2, <3>3, RacesKept, ChatsFollow
  <2> QED  BY <2>1, <2>2, <2>3, <2>4 DEF RacesInv
<1>4. \A p : IsCreatedTwice(p)' => p \in raced'
  BY RacesKept
<1> QED  BY <1>2, <1>3, <1>4 DEF RacesInv, OnlyRacesDuplicate

\* With the history the threads are those of UchatServer.
LEMMA RacesServe == RacesSpec => Spec
<1>1. RacesInit => Init
  BY DEF RacesInit
<1>2. [RacesNext]_racesVars => [Next]_vars
  BY DEF RacesNext, racesVars
<1> QED  BY <1>1, <1>2, PTL DEF RacesSpec, Spec

\* OnlyRacesDuplicate is an invariant, for any number of threads, users and chats: the
\* check for an existing chat can only be passed by two threads at once or by failing.
THEOREM DuplicatesComeOfRaces == RacesSpec => []OnlyRacesDuplicate
<1>1. RacesInit => RacesInv
  <2> SUFFICES ASSUME RacesInit PROVE RacesInv
    OBVIOUS
  <2>1. \A s \in Sessions : ~Creates(s)
    BY DEF RacesInit, Init, Creates
  <2>2. CompleteChats = {}
    BY DEF RacesInit, Init, CompleteChats, ChatMembers
  <2> QED  BY <2>1, <2>2 DEF RacesInv, OnlyRacesDuplicate, IsCreatedTwice
<1>2. SafetyInv /\ RacesInv /\ [RacesNext]_racesVars => RacesInv'
  <2> SUFFICES ASSUME RacesInv, UNCHANGED racesVars PROVE RacesInv'
    BY RacesStep
  <2>1. UNCHANGED <<chats, members, pc, client_info, req, raced>>
    BY DEF racesVars, vars, session, tables
  <2>2. /\ CompleteChats' = CompleteChats /\ \A c : ChatMembers(c)' = ChatMembers(c)
        /\ \A s \in Sessions : Creates(s)' = Creates(s) /\ Pair(s)' = Pair(s)
    BY <2>1 DEF CompleteChats, ChatMembers, Creates, Pair
  <2> QED  BY <2>1, <2>2 DEF RacesInv, OnlyRacesDuplicate, IsCreatedTwice
<1>3. RacesInv => OnlyRacesDuplicate
  BY DEF RacesInv
<1> QED  BY <1>1, <1>2, <1>3, RacesServe, SafetyInvariant, PTL DEF RacesSpec
=============================================================================
