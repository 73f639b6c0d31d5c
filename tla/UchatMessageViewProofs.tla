----------------------- MODULE UchatMessageViewProofs -----------------------
(***************************************************************************)
(* The message view, for any number of chats, messages, replies in flight  *)
(* and faults.                                                             *)
(*                                                                         *)
(* What is shown mirrors what is kept: this needs nothing of the replies,  *)
(* it is kept by the loop over their rows, whatever the rows are.          *)
(*                                                                         *)
(* What is shown never goes back, and is so.  A row of a reply is a row of *)
(* the table as it was when the server answered.  On its way a string      *)
(* never passes another, and what is lost of them leaves the others in     *)
(* order: so of two rows of a message the one that is handled later is not *)
(* the older one, and none is newer than the table.                        *)
(***************************************************************************)
EXTENDS UchatMessageView, SequenceTheorems, FiniteSetTheorems, TLAPS

IsSeq(s) == \E S : s \in Seq(S)

Mirrors(list, store) ==
    /\ IsSeq(list) /\ IsSeq(store)
    /\ \A i, j \in DOMAIN list : list[i] = list[j] => i = j
    /\ Ids(store) = list

MirrorInv ==
    /\ IsSeq(message_list) /\ IsSeq(messages_store)
    /\ StoreMirrorsList

----------------------------------------------------------------------------

\* The empty list and the empty store mirror each other.
LEMMA EmptyMirrors == Mirrors(<< >>, << >>)
<1>1. IsSeq(<< >>)
  <2>1. << >> \in Seq({})
    OBVIOUS
  <2> QED  BY <2>1 DEF IsSeq
<1>2. DOMAIN << >> = {}
  OBVIOUS
<1>3. Ids(<< >>) = << >>
  BY DEF Ids
<1> QED  BY <1>1, <1>2, <1>3 DEF Mirrors

\* Appending to a sequence, whatever its elements.
LEMMA AppendIsSeq ==
    ASSUME NEW s, IsSeq(s), NEW x
    PROVE  /\ IsSeq(Append(s, x))
           /\ Len(s) \in Nat /\ DOMAIN s = 1..Len(s)
           /\ Len(Append(s, x)) = Len(s) + 1
           /\ DOMAIN Append(s, x) = 1..(Len(s) + 1)
           /\ \A i \in 1..Len(s) : Append(s, x)[i] = s[i]
           /\ Append(s, x)[Len(s) + 1] = x
<1>1. PICK S : s \in Seq(S)
  BY DEF IsSeq
<1>2. s \in Seq(S \cup {x})
  BY <1>1
<1>3. /\ Append(s, x) \in Seq(S \cup {x})
      /\ Len(Append(s, x)) = Len(s) + 1
      /\ \A i \in 1..Len(s) : Append(s, x)[i] = s[i]
      /\ Append(s, x)[Len(s) + 1] = x
  BY <1>2
<1>4. Len(s) \in Nat /\ DOMAIN s = 1..Len(s)
  BY <1>1
<1>5. DOMAIN Append(s, x) = 1..(Len(s) + 1)
  BY <1>3, <1>4
<1> QED  BY <1>3, <1>4, <1>5 DEF IsSeq

\* A message that is not in the list is appended to both.
LEMMA AppendMirrors ==
    ASSUME NEW list, NEW store, Mirrors(list, store),
           NEW shown, ~ \E i \in DOMAIN list : list[i] = shown.id
    PROVE  Mirrors(Append(list, shown.id), Append(store, shown))
<1> DEFINE newList == Append(list, shown.id)
           newStore == Append(store, shown)
<1>1. /\ IsSeq(list) /\ IsSeq(store)
      /\ \A i, j \in DOMAIN list : list[i] = list[j] => i = j
      /\ DOMAIN store = DOMAIN list
      /\ \A i \in DOMAIN store : store[i].id = list[i]
  BY DEF Mirrors, Ids
<1>2. /\ IsSeq(newList)
      /\ Len(list) \in Nat /\ DOMAIN list = 1..Len(list)
      /\ Len(newList) = Len(list) + 1
      /\ DOMAIN newList = 1..(Len(list) + 1)
      /\ \A i \in 1..Len(list) : newList[i] = list[i]
      /\ newList[Len(list) + 1] = shown.id
  BY <1>1, AppendIsSeq
<1>3. /\ IsSeq(newStore)
      /\ Len(store) \in Nat /\ DOMAIN store = 1..Len(store)
      /\ DOMAIN newStore = 1..(Len(store) + 1)
      /\ \A i \in 1..Len(store) : newStore[i] = store[i]
      /\ newStore[Len(store) + 1] = shown
  BY <1>1, AppendIsSeq
<1>4. Len(store) = Len(list)
  <2>1. 1..Len(store) = 1..Len(list)
    BY <1>1, <1>2, <1>3
  <2>2. ~(Len(list) < Len(store))
    <3>1. Len(list) < Len(store) => /\ Len(store) \in 1..Len(store)
                                    /\ Len(store) \notin 1..Len(list)
      BY <1>2, <1>3
    <3> QED  BY <3>1, <2>1
  <2>3. ~(Len(store) < Len(list))
    <3>1. Len(store) < Len(list) => /\ Len(list) \in 1..Len(list)
                                    /\ Len(list) \notin 1..Len(store)
      BY <1>2, <1>3
    <3> QED  BY <3>1, <2>1
  <2>4. \A m, n \in Nat : ~(m < n) /\ ~(n < m) => m = n
    OBVIOUS
  <2>5. Len(list) \in Nat /\ Len(store) \in Nat
    BY <1>2, <1>3
  <2> QED  BY <2>2, <2>3, <2>4, <2>5
<1> HIDE DEF newList, newStore
<1>5. \A i, j \in DOMAIN newList : newList[i] = newList[j] => i = j
  <2> SUFFICES ASSUME NEW i \in DOMAIN newList, NEW j \in DOMAIN newList,
                      newList[i] = newList[j]
               PROVE  i = j
    OBVIOUS
  <2>1. CASE i = Len(list) + 1 /\ j # i
    <3>1. j \in 1..Len(list) /\ newList[j] = list[j]
      BY <2>1, <1>2
    <3> QED  BY <3>1, <2>1, <1>2
  <2>2. CASE j = Len(list) + 1 /\ j # i
    <3>1. i \in 1..Len(list) /\ newList[i] = list[i]
      BY <2>2, <1>2
    <3> QED  BY <3>1, <2>2, <1>2
  <2>3. CASE i # Len(list) + 1 /\ j # Len(list) + 1
    <3>1. i \in 1..Len(list) /\ j \in 1..Len(list)
      BY <2>3, <1>2
    <3> QED  BY <3>1, <1>1, <1>2
  <2> QED  BY <2>1, <2>2, <2>3
<1>6. Ids(newStore) = newList
  <2>1. newList = [i \in 1..(Len(list) + 1) |-> newList[i]]
    <3>1. PICK S : newList \in Seq(S)
      BY <1>2 DEF IsSeq
    <3> QED  BY <3>1, <1>2
  <2>2. \A i \in 1..(Len(list) + 1) : newStore[i].id = newList[i]
    <3> SUFFICES ASSUME NEW i \in 1..(Len(list) + 1)
                 PROVE  newStore[i].id = newList[i]
      OBVIOUS
    <3>1. CASE i = Len(list) + 1
      BY <3>1, <1>2, <1>3, <1>4
    <3>2. CASE i # Len(list) + 1
      <4>1. i \in 1..Len(list)
        BY <3>2, <1>2
      <4> QED  BY <4>1, <1>1, <1>2, <1>3, <1>4
    <3> QED  BY <3>1, <3>2
  <2> QED  BY <2>1, <2>2, <1>3, <1>4 DEF Ids
<1> QED  BY <1>2, <1>3, <1>5, <1>6 DEF Mirrors, newList, newStore

\* Changing the text of a row that is shown changes no id.
LEMMA UpdateMirrors ==
    ASSUME NEW list, NEW store, Mirrors(list, store), NEW row
    PROVE  Mirrors(list, UpdateModel(store, row))
<1> DEFINE new == UpdateModel(store, row)
<1>1. PICK S : store \in Seq(S)
  BY DEF Mirrors, IsSeq
<1>2. new \in Seq(S \cup {Shown(row)})
  <2>1. /\ Len(store) \in Nat /\ DOMAIN store = 1..Len(store)
        /\ \A i \in 1..Len(store) : store[i] \in S
    BY <1>1
  <2>2. new \in [1..Len(store) -> S \cup {Shown(row)}]
    BY <2>1 DEF UpdateModel
  <2> QED  BY <2>1, <2>2
<1>3. IsSeq(new)
  BY <1>2 DEF IsSeq
<1>4. Shown(row).id = row.id
  BY DEF Shown
<1>5. Ids(new) = Ids(store)
  <2>1. DOMAIN new = DOMAIN store
    BY DEF UpdateModel
  <2>2. \A i \in DOMAIN store : new[i].id = store[i].id
    BY <1>4 DEF UpdateModel
  <2> HIDE DEF new
  <2> QED  BY <2>1, <2>2 DEF Ids
<1> QED  BY <1>3, <1>5 DEF Mirrors

----------------------------------------------------------------------------

\* What is_clear leaves is a list and its mirror.
LEMMA KeptMirrors == MirrorInv => Mirrors(Kept.list, Kept.store)
<1>1. CASE is_clear
  <2>1. Kept.list = << >> /\ Kept.store = << >>
    BY <1>1 DEF Kept
  <2> QED  BY <2>1, EmptyMirrors
<1>2. CASE ~is_clear
  <2>1. Kept.list = message_list /\ Kept.store = messages_store
    BY <1>2 DEF Kept
  <2> QED  BY <2>1, <1>2 DEF MirrorInv, StoreMirrorsList, Mirrors
<1> QED  BY <1>1, <1>2

\* One pass of the loop over the rows of a reply.
LEMMA HandleRowMirrors ==
    MirrorInv /\ HandleRow => Mirrors(message_list', messages_store')
<1> SUFFICES ASSUME MirrorInv, HandleRow
             PROVE  Mirrors(message_list', messages_store')
  OBVIOUS
<1> DEFINE row == Head(rows)
           known == \E i \in DOMAIN Kept.list : Kept.list[i] = row.id
<1>1. Mirrors(Kept.list, Kept.store)
  BY KeptMirrors
<1>2. CASE OnlyUpdates(row)
  <2>1. /\ message_list' = Kept.list
        /\ messages_store' = UpdateModel(Kept.store, row)
    BY <1>2 DEF HandleRow
  <2> QED  BY <2>1, <1>1, UpdateMirrors
<1>3. CASE ~OnlyUpdates(row) /\ ~known
  <2>1. /\ message_list' = Append(Kept.list, row.id)
        /\ messages_store' = Append(Kept.store, Shown(row))
    BY <1>3 DEF HandleRow
  <2>2. Shown(row).id = row.id
    BY DEF Shown
  <2>3. ~ \E i \in DOMAIN Kept.list : Kept.list[i] = Shown(row).id
    BY <1>3, <2>2
  <2>4. Mirrors(Append(Kept.list, Shown(row).id), Append(Kept.store, Shown(row)))
    BY <1>1, <2>3, AppendMirrors
  <2> QED  BY <2>1, <2>2, <2>4
<1>4. CASE ~OnlyUpdates(row) /\ known
  <2>1. message_list' = Kept.list /\ messages_store' = Kept.store
    BY <1>4 DEF HandleRow
  <2> QED  BY <2>1, <1>1
<1> QED  BY <1>2, <1>3, <1>4

\* A list and its mirror satisfy the invariant, whatever is_clear is.
LEMMA MirrorsInv ==
    ASSUME Mirrors(message_list', messages_store')
    PROVE  MirrorInv'
BY DEF Mirrors, MirrorInv, StoreMirrorsList, Ids

\* Every other step leaves the list alone or empties it; where it is left while the
\* store changes, is_clear is set.
LEMMA OtherSteps ==
    ASSUME MirrorInv, [Next]_vars, ~HandleRow
    PROVE  MirrorInv'
<1> USE DEF MirrorInv
<1>1. ASSUME UNCHANGED <<is_clear, message_list, messages_store>>
      PROVE  MirrorInv'
  BY <1>1 DEF StoreMirrorsList, Ids
<1>2. CASE Statement
  BY <1>1, <1>2 DEF Statement, view
<1>3. CASE ServerAnswers \/ QueryFails
  BY <1>1, <1>3 DEF ServerAnswers, QueryFails, Answer, view
<1>4. CASE ConnectionLost \/ Reconnects \/ ControllerReads
  BY <1>1, <1>4 DEF ConnectionLost, Reconnects, ControllerReads, view
<1>5. CASE PollFires \/ PopQueue \/ StartReply
  BY <1>1, <1>5 DEF PollFires, PopQueue, StartReply, view
<1>6. CASE EndReply
  BY <1>1, <1>6 DEF EndReply
<1>7. ASSUME NEW c \in 1..chats, SelectChat(c)
      PROVE  MirrorInv'
  <2>1. is_clear' = TRUE /\ message_list' = message_list /\ messages_store' = << >>
    BY <1>7 DEF SelectChat
  <2> QED  BY <2>1, EmptyMirrors DEF StoreMirrorsList, Mirrors
<1>8. CASE Deselect
  BY <1>8 DEF Deselect, StoreMirrorsList
<1>9. CASE LogOut
  <2>1. message_list' = << >> /\ messages_store' = << >>
    BY <1>9 DEF LogOut
  <2> QED  BY <2>1, EmptyMirrors, MirrorsInv
<1>10. CASE UNCHANGED vars
  BY <1>1, <1>10 DEF vars, view
<1> QED  BY <1>2, <1>3, <1>4, <1>5, <1>6, <1>7, <1>8, <1>9, <1>10 DEF Next

\* StoreMirrorsList is an invariant: what the user sees are the messages the client
\* keeps, in the same order and once each, however chats are changed and replies to
\* the polls of other chats arrive.
THEOREM ViewMirrors == Spec => []StoreMirrorsList
<1>1. Init => MirrorInv
  <2> SUFFICES ASSUME Init PROVE MirrorInv
    OBVIOUS
  <2>1. message_list = << >> /\ messages_store = << >>
    BY DEF Init
  <2> QED  BY <2>1, EmptyMirrors DEF MirrorInv, StoreMirrorsList, Mirrors
<1>2. MirrorInv /\ [Next]_vars => MirrorInv'
  BY OtherSteps, HandleRowMirrors, MirrorsInv
<1>3. MirrorInv => StoreMirrorsList
  BY DEF MirrorInv
<1> QED  BY <1>1, <1>2, <1>3, PTL DEF Spec

----------------------------------------------------------------------------
(* Rows and strings *)

FlightTypeOK ==
    /\ DatabaseTypeOK
    /\ wire \in Seq(Record) /\ buffer \in Seq(Record)
    /\ data_queue \in Seq(ReadText) /\ idle \in Seq(ReadText)
    /\ rows \in String

\* old is no newer than new, as far as what is shown can tell.
NotNewer(old, new) ==
    old.id = new.id =>
        /\ old.row.deleted => new.row.deleted
        /\ old.row.updated => new.row.updated

HasRow(string, row) == \E i \in DOMAIN string : row = string[i]

----------------------------------------------------------------------------
(* Positions: where a row is on its way to the view *)

\* Level 0 is the loop over the rows of a reply, then come the idle callbacks,
\* data_queue, the controller's buffer, the connection and the table itself.  Of
\* the records that make up a text only the first one's string is ever used.
At(level, n, row) ==
    \/ level = 0 /\ n = 0 /\ HasRow(rows, row)
    \/ level = 1 /\ n \in DOMAIN idle /\ HasRow(idle[n][1].string, row)
    \/ level = 2 /\ n \in DOMAIN data_queue /\ HasRow(data_queue[n][1].string, row)
    \/ level = 3 /\ n = 0 /\ buffer # << >> /\ HasRow(buffer[1].string, row)
    \/ level = 4 /\ n \in DOMAIN wire /\ HasRow(wire[n].string, row)
    \/ level = 5 /\ n = 0 /\ \E m \in MessageIds : row = MessageOut(m)

Levels == 0..5

NotBehind(k, n, l, p) == k < l \/ (k = l /\ n <= p)

\* Rows come to the view in the order in which they were read from the table.
InOrder ==
    \A k, l \in Levels, n, p \in Nat, old, new \in OutRow :
        At(k, n, old) /\ At(l, p, new) /\ NotBehind(k, n, l, p) => NotNewer(old, new)

\* On its way is what has left the table.
OnItsWay(row) == \E k \in 0..4, n \in Nat : At(k, n, row)

NoneNew == \A row \in OutRow : OnItsWay(row)' => OnItsWay(row)

\* There are no rows of messages that do not exist.
RowsExist ==
    \A k \in Levels, n \in Nat, row \in OutRow : At(k, n, row) => row.id \in MessageIds

\* What is shown of a message is no newer than any row on its way.
ShownNotNewer(shown, row) ==
    shown.id = row.id =>
        /\ shown.text = DeletedText => row.row.deleted
        /\ shown.edited => row.row.updated

StoreInOrder ==
    \A i \in DOMAIN messages_store :
        /\ messages_store[i].id \in MessageIds
        /\ \A k \in Levels, n \in Nat, row \in OutRow :
              At(k, n, row) => ShownNotNewer(messages_store[i], row)

StoreDistinct ==
    \A i, j \in DOMAIN messages_store : messages_store[i].id = messages_store[j].id => i = j

OrderInv ==
    FlightTypeOK /\ MirrorInv /\ StoreDistinct /\ InOrder /\ RowsExist /\ StoreInOrder

----------------------------------------------------------------------------
(* The rows of a reply *)

\* A set of numbers below a bound is numbered in ascending order.
LEMMA Numbered ==
    ASSUME NEW S, IsFiniteSet(S), S \subseteq Nat, NEW k \in 1..Cardinality(S)
    PROVE  \E m \in S : Cardinality({n \in S : n <= m}) = k
<1> DEFINE Below(m) == {n \in S : n <= m}
           rank == [m \in S |-> Cardinality(Below(m))]
           Ranks == 1..Cardinality(S)
<1>1. Cardinality(S) \in Nat
  BY FS_CardinalityType
<1>2. ASSUME NEW m \in S
      PROVE  /\ IsFiniteSet(Below(m)) /\ m \in Below(m)
             /\ Cardinality(Below(m)) \in Ranks
  <2>1. Below(m) \in SUBSET S /\ m \in Below(m)
    OBVIOUS
  <2>2. IsFiniteSet(Below(m)) /\ Cardinality(Below(m)) <= Cardinality(S)
    BY <2>1, FS_Subset
  <2>3. Cardinality(Below(m)) \in Nat /\ Cardinality(Below(m)) # 0
    BY <2>1, <2>2, FS_CardinalityType, FS_EmptySet
  <2> QED  BY <1>1, <2>1, <2>2, <2>3
<1>3. rank \in [S -> Ranks]
  BY <1>2
<1>4. ASSUME NEW m \in S, NEW n \in S, m < n
      PROVE  rank[m] # rank[n]
  <2>1. Below(m) \in SUBSET Below(n) /\ n \notin Below(m)
    <3>1. ~(n <= m) /\ \A x \in S : x <= m => x <= n
      BY <1>4
    <3> QED  BY <3>1
  <2>2. n \in Below(n) /\ IsFiniteSet(Below(n))
    BY <1>2
  <2>3. Cardinality(Below(m)) # Cardinality(Below(n))
    BY <2>1, <2>2, FS_Subset
  <2> QED  BY <2>3
<1>5. \A m, n \in S : rank[m] = rank[n] => m = n
  <2> SUFFICES ASSUME NEW m \in S, NEW n \in S, m # n PROVE rank[m] # rank[n]
    OBVIOUS
  <2>1. m < n \/ n < m
    OBVIOUS
  <2> QED  BY <2>1, <1>4
<1>6. IsFiniteSet(Ranks) /\ Cardinality(Ranks) = Cardinality(S)
  <2>1. /\ IsFiniteSet(1..Cardinality(S))
        /\ Cardinality(1..Cardinality(S)) =
              IF 1 > Cardinality(S) THEN 0 ELSE Cardinality(S) - 1 + 1
    BY <1>1, FS_Interval
  <2> QED  BY <1>1, <2>1
<1>7. rank \in Injection(S, Ranks)
  BY <1>3, <1>5 DEF Injection, IsInjective
<1>8. rank \in Surjection(S, Ranks)
  BY <1>6, <1>7, FS_Injection
<1>9. PICK m \in S : rank[m] = k
  BY <1>8 DEF Surjection
<1> QED  BY <1>9

\* What a query returns of a message.
LEMMA RowsOut ==
    ASSUME DatabaseTypeOK, NEW m \in MessageIds
    PROVE  /\ MessageOut(m) \in OutRow
           /\ MessageOut(m).id = m /\ MessageOut(m).row = messages[m]
<1>1. m \in Nat /\ messages[m] \in MessageRow
  BY DEF DatabaseTypeOK, MessageIds
<1>2. \A i \in UserIds : users[i].username \in Usernames
  <2>1. \A i \in DOMAIN users : users[i] \in UserRow
    BY DEF DatabaseTypeOK
  <2> QED  BY <2>1 DEF UserIds, UserRow
<1>3. database_fetch_username(messages[m].user_id) \subseteq Usernames
  BY <1>2 DEF database_fetch_username
<1> QED  BY <1>1, <1>3 DEF MessageOut, OutRow

\* A reply holds rows of the table, those of one chat.
LEMMA ReplyRows ==
    ASSUME DatabaseTypeOK, NEW c
    PROVE  /\ ChatRows(c) \in String
           /\ \A row : HasRow(ChatRows(c), row) => \E m \in ChatMessages(c) : row = MessageOut(m)
           /\ ChatMessages(c) \subseteq MessageIds
           /\ Len(ChatRows(c)) <= Len(messages)
<1> DEFINE ids == ChatMessages(c)
<1>1. /\ Len(messages) \in Nat /\ MessageIds = 1..Len(messages)
      /\ \A m \in MessageIds : messages[m] \in MessageRow
  BY DEF DatabaseTypeOK, MessageIds
<1>2. ids \in SUBSET MessageIds /\ ids \subseteq Nat
  BY <1>1 DEF ChatMessages
<1>3. IsFiniteSet(ids)
  <2>1. IsFiniteSet(MessageIds)
    BY <1>1, FS_Interval
  <2> QED  BY <1>2, <2>1, FS_Subset
<1>4. Cardinality(ids) \in Nat /\ Cardinality(ids) <= Len(messages)
  <2>1. IsFiniteSet(MessageIds) /\ Cardinality(MessageIds) = Len(messages)
    <3> DEFINE N == Len(messages)
    <3>1. N \in Nat /\ MessageIds = 1..N
      BY <1>1
    <3> HIDE DEF N
    <3>2. IsFiniteSet(1..N) /\ Cardinality(1..N) = IF 1 > N THEN 0 ELSE N - 1 + 1
      BY <3>1, FS_Interval
    <3>3. IsFiniteSet(MessageIds) /\ Cardinality(MessageIds) = N
      BY <3>1, <3>2
    <3> QED  BY <3>3 DEF N
  <2> QED  BY <1>2, <1>3, <2>1, FS_CardinalityType, FS_Subset
<1>5. \A k \in 1..Cardinality(ids) : NthMessage(c, k) \in ids
  <2> SUFFICES ASSUME NEW k \in 1..Cardinality(ids) PROVE NthMessage(c, k) \in ids
    OBVIOUS
  <2>1. \E m \in ids : Cardinality({n \in ids : n <= m}) = k
    BY <1>2, <1>3, Numbered
  <2> QED  BY <2>1 DEF NthMessage
<1>6. \A m \in MessageIds : MessageOut(m) \in OutRow
  BY RowsOut
<1>7. /\ DOMAIN ChatRows(c) = 1..Cardinality(ids)
      /\ \A k \in 1..Cardinality(ids) : ChatRows(c)[k] = MessageOut(NthMessage(c, k))
      /\ ChatRows(c) = [k \in 1..Cardinality(ids) |-> ChatRows(c)[k]]
  BY DEF ChatRows
<1> HIDE DEF ids
<1>8. ChatRows(c) \in [1..Cardinality(ids) -> OutRow]
  BY <1>2, <1>5, <1>6, <1>7
<1>9. ChatRows(c) \in String /\ Len(ChatRows(c)) = Cardinality(ids)
  BY <1>4, <1>8 DEF String
<1> QED  BY <1>2, <1>4, <1>5, <1>7, <1>9 DEF HasRow, ids

----------------------------------------------------------------------------
(* Steps that carry rows on *)

\* Every row on its way has been there before, and none has passed another: level and
\* index say where a row was.
LEMMA Carried ==
    ASSUME InOrder, RowsExist, StoreInOrder, MessageIds' = MessageIds,
           NEW level \in [Levels -> [Nat -> Levels]], NEW index \in [Levels -> [Nat -> Nat]],
           \A k, l \in Levels, n, p \in Nat :
              NotBehind(k, n, l, p) =>
                 NotBehind(level[k][n], index[k][n], level[l][p], index[l][p]),
           \A k \in Levels, n \in Nat, row \in OutRow :
              At(k, n, row)' => At(level[k][n], index[k][n], row)
    PROVE  /\ InOrder' /\ RowsExist'
           /\ messages_store' \in {messages_store, << >>} => StoreInOrder'
           /\ (\A k \in 0..4, n \in Nat : level[k][n] \in 0..4) => NoneNew
<1>1. \A k \in Levels, n \in Nat : level[k][n] \in Levels /\ index[k][n] \in Nat
  OBVIOUS
<1>2. InOrder'
  <2> SUFFICES ASSUME NEW k \in Levels, NEW l \in Levels, NEW n \in Nat, NEW p \in Nat,
                      NEW old \in OutRow, NEW new \in OutRow,
                      At(k, n, old)', At(l, p, new)', NotBehind(k, n, l, p)
               PROVE  NotNewer(old, new)
    BY DEF InOrder, NotNewer, NotBehind
  <2>1. At(level[k][n], index[k][n], old) /\ At(level[l][p], index[l][p], new)
    OBVIOUS
  <2>2. NotBehind(level[k][n], index[k][n], level[l][p], index[l][p])
    OBVIOUS
  <2> QED  BY <1>1, <2>1, <2>2 DEF InOrder
<1>3. RowsExist'
  <2> SUFFICES ASSUME NEW k \in Levels, NEW n \in Nat, NEW row \in OutRow, At(k, n, row)'
               PROVE  row.id \in MessageIds
    BY DEF RowsExist
  <2>1. At(level[k][n], index[k][n], row)
    OBVIOUS
  <2> QED  BY <1>1, <2>1 DEF RowsExist
<1>4. ASSUME messages_store' = messages_store PROVE StoreInOrder'
  <2> SUFFICES ASSUME NEW i \in DOMAIN messages_store, NEW k \in Levels, NEW n \in Nat,
                      NEW row \in OutRow, At(k, n, row)'
               PROVE  ShownNotNewer(messages_store[i], row)
    BY <1>4 DEF StoreInOrder, ShownNotNewer, DeletedText
  <2>1. At(level[k][n], index[k][n], row)
    OBVIOUS
  <2> QED  BY <1>1, <2>1 DEF StoreInOrder
<1>5. ASSUME messages_store' = << >> PROVE StoreInOrder'
  <2>1. DOMAIN << >> = {}
    OBVIOUS
  <2>2. DOMAIN messages_store' = {}
    BY <1>5, <2>1
  <2> QED  BY <2>2 DEF StoreInOrder
<1>6. ASSUME \A k \in 0..4, n \in Nat : level[k][n] \in 0..4 PROVE NoneNew
  <2> SUFFICES ASSUME NEW row \in OutRow, NEW k \in 0..4, NEW n \in Nat, At(k, n, row)'
               PROVE  OnItsWay(row)
    BY DEF NoneNew, OnItsWay
  <2>1. k \in Levels
    BY DEF Levels
  <2>2. At(level[k][n], index[k][n], row)
    BY <2>1
  <2> QED  BY <1>1, <1>6, <2>1, <2>2 DEF OnItsWay
<1> QED  BY <1>2, <1>3, <1>4, <1>5, <1>6

\* Nothing has moved, but some rows may be gone.
LEMMA NothingPassed ==
    ASSUME InOrder, RowsExist, StoreInOrder, MessageIds' = MessageIds,
           \A k \in Levels, n \in Nat, row \in OutRow : At(k, n, row)' => At(k, n, row)
    PROVE  /\ InOrder' /\ RowsExist' /\ NoneNew
           /\ messages_store' \in {messages_store, << >>} => StoreInOrder'
<1> DEFINE level == [k \in Levels |-> [n \in Nat |-> k]]
           index == [k \in Levels |-> [n \in Nat |-> n]]
<1>1. level \in [Levels -> [Nat -> Levels]] /\ index \in [Levels -> [Nat -> Nat]]
  OBVIOUS
<1>2. \A k \in Levels, n \in Nat : level[k][n] = k /\ index[k][n] = n
  OBVIOUS
<1> HIDE DEF level, index
<1>3. \A k, l \in Levels, n, p \in Nat :
         NotBehind(k, n, l, p) =>
            NotBehind(level[k][n], index[k][n], level[l][p], index[l][p])
  BY <1>2
<1>4. \A k \in Levels, n \in Nat, row \in OutRow :
         At(k, n, row)' => At(level[k][n], index[k][n], row)
  BY <1>2
<1>5. \A k \in 0..4, n \in Nat : level[k][n] \in 0..4
  BY <1>2 DEF Levels
<1> QED  BY <1>1, <1>3, <1>4, <1>5, Carried

----------------------------------------------------------------------------
(* The other clients *)

\* A statement adds a message or changes one, and takes nothing back; a message keeps
\* its chat, and its text until it is edited.
LEMMA StatementKeeps ==
    ASSUME DatabaseTypeOK, Statement
    PROVE  /\ DatabaseTypeOK'
           /\ MessageIds \subseteq MessageIds'
           /\ \A m \in MessageIds :
                 /\ messages[m].deleted => messages'[m].deleted
                 /\ messages[m].updated => messages'[m].updated
                 /\ messages'[m].chat_id = messages[m].chat_id
                 /\ messages'[m].updated \/ messages'[m].body = messages[m].body
<1>1. /\ Len(messages) \in Nat /\ DOMAIN messages = 1..Len(messages)
      /\ \A m \in DOMAIN messages : messages[m] \in MessageRow
      /\ messages \in Seq(MessageRow)
  BY DEF DatabaseTypeOK
<1>2. ASSUME NEW c \in 1..chats, NEW body \in Posts, InsertMessage(1, c, body)
      PROVE  /\ DatabaseTypeOK'
             /\ MessageIds \subseteq MessageIds'
             /\ \A m \in MessageIds : messages'[m] = messages[m]
  <2> DEFINE row == [user_id |-> 1, chat_id |-> c, body |-> body,
                     updated |-> FALSE, deleted |-> FALSE]
  <2>1. row \in MessageRow
    BY ViewAssumption DEF MessageRow, DatabaseTypeOK
  <2>2. messages' = Append(messages, row) /\ UNCHANGED <<users, chats, members>>
    BY <1>2 DEF InsertMessage
  <2> HIDE DEF row
  <2>3. /\ messages' \in Seq(MessageRow) /\ Len(messages') = Len(messages) + 1
        /\ \A m \in 1..Len(messages) : messages'[m] = messages[m]
    BY <1>1, <2>1, <2>2
  <2>4. DOMAIN messages' = 1..(Len(messages) + 1)
    BY <1>1, <2>3
  <2> QED  BY <1>1, <2>2, <2>3, <2>4 DEF DatabaseTypeOK, MessageIds
<1>3. ASSUME NEW n, (\E body \in Edits : UpdateMessage(n, body)) \/ RemoveMessage(n)
      PROVE  /\ DatabaseTypeOK'
             /\ MessageIds' = MessageIds
             /\ \A m \in MessageIds :
                   /\ messages[m].deleted => messages'[m].deleted
                   /\ messages[m].updated => messages'[m].updated
                   /\ messages'[m].chat_id = messages[m].chat_id
                   /\ messages'[m].updated \/ messages'[m].body = messages[m].body
  <2>1. UNCHANGED <<users, chats, members>>
    BY <1>3 DEF UpdateMessage, RemoveMessage
  <2>2. /\ DOMAIN messages' = DOMAIN messages
        /\ messages' = [m \in DOMAIN messages |-> messages'[m]]
    BY <1>3 DEF UpdateMessage, RemoveMessage, MessageIds
  <2>3. ASSUME NEW m \in DOMAIN messages
        PROVE  /\ messages'[m] \in MessageRow
               /\ messages[m].deleted => messages'[m].deleted
               /\ messages[m].updated => messages'[m].updated
               /\ messages'[m].chat_id = messages[m].chat_id
               /\ messages'[m].updated \/ messages'[m].body = messages[m].body
    <3>1. messages[m] \in MessageRow
      BY <1>1
    <3>2. \/ messages'[m] = messages[m]
          \/ messages'[m] = [messages[m] EXCEPT !.deleted = TRUE]
          \/ \E body \in Bodies :
                messages'[m] = [messages[m] EXCEPT !.body = body, !.updated = TRUE]
      BY <1>3, ViewAssumption DEF UpdateMessage, RemoveMessage, MessageIds
    <3> QED  BY <3>1, <3>2 DEF MessageRow
  <2>4. messages' \in [1..Len(messages) -> MessageRow]
    BY <1>1, <2>2, <2>3
  <2>5. messages' \in Seq(MessageRow)
    BY <1>1, <2>4
  <2> QED  BY <2>1, <2>2, <2>3, <2>5 DEF DatabaseTypeOK, MessageIds
<1> QED  BY <1>2, <1>3 DEF Statement

\* The table only moves on, so what was read of it before is no newer than it is.
LEMMA StatementOrder ==
    ASSUME OrderInv, Statement
    PROVE  InOrder' /\ RowsExist' /\ StoreInOrder'
<1>1. /\ DatabaseTypeOK /\ DatabaseTypeOK'
      /\ MessageIds \subseteq MessageIds'
      /\ \A m \in MessageIds :
            /\ messages[m].deleted => messages'[m].deleted
            /\ messages[m].updated => messages'[m].updated
  BY StatementKeeps DEF OrderInv, FlightTypeOK
<1>2. \A m \in MessageIds :
         MessageOut(m) \in OutRow /\ MessageOut(m).id = m /\ MessageOut(m).row = messages[m]
  BY <1>1, RowsOut
<1>3. \A m \in MessageIds' : MessageOut(m)'.id = m /\ MessageOut(m)'.row = messages'[m]
  BY DEF MessageOut
<1>4. UNCHANGED <<rows, idle, transport, messages_store>>
  BY DEF Statement, view
<1>5. ASSUME NEW k \in Levels, NEW n \in Nat, NEW row \in OutRow, At(k, n, row)'
      PROVE  \/ k # 5 /\ At(k, n, row)
             \/ /\ k = 5 /\ row.id \in MessageIds' /\ row.row = messages'[row.id]
                /\ row.id \in MessageIds =>
                      At(5, 0, MessageOut(row.id)) /\ NotNewer(MessageOut(row.id), row)
  <2>1. CASE k = 5
    <3>1. PICK m \in MessageIds' : row = MessageOut(m)'
      BY <1>5, <2>1 DEF At
    <3>2. row.id = m /\ row.row = messages'[m]
      BY <1>3, <3>1
    <3>3. ASSUME m \in MessageIds
          PROVE  At(5, 0, MessageOut(m)) /\ NotNewer(MessageOut(m), row)
      <4>1. At(5, 0, MessageOut(m))
        BY <3>3 DEF At
      <4> QED  BY <1>1, <1>2, <3>2, <3>3, <4>1 DEF NotNewer
    <3> QED  BY <2>1, <3>2, <3>3
  <2>2. CASE k # 5
    BY <1>4, <1>5, <2>2 DEF At, HasRow, transport
  <2> QED  BY <2>1, <2>2
<1>6. InOrder'
  <2> SUFFICES ASSUME NEW k \in Levels, NEW l \in Levels, NEW n \in Nat, NEW p \in Nat,
                      NEW old \in OutRow, NEW new \in OutRow,
                      At(k, n, old)', At(l, p, new)', NotBehind(k, n, l, p)
               PROVE  NotNewer(old, new)
    BY DEF InOrder, NotNewer, NotBehind
  <2>1. CASE l # 5
    <3>1. k # 5
      BY <2>1 DEF NotBehind, Levels
    <3>2. At(k, n, old) /\ At(l, p, new)
      BY <1>5, <2>1, <3>1
    <3> QED  BY <3>2 DEF OrderInv, InOrder
  <2>2. CASE k = 5 /\ l = 5
    <3>1. old.row = messages'[old.id] /\ new.row = messages'[new.id]
      BY <1>5, <2>2
    <3> QED  BY <3>1 DEF NotNewer
  <2>3. CASE k # 5 /\ l = 5 /\ old.id = new.id
    <3>1. At(k, n, old)
      BY <1>5, <2>3
    <3>2. old.id \in MessageIds
      BY <3>1 DEF OrderInv, RowsExist
    <3>3. At(5, 0, MessageOut(old.id)) /\ NotNewer(MessageOut(old.id), new)
      BY <1>5, <2>3, <3>2
    <3>4. NotBehind(k, n, 5, 0) /\ 5 \in Levels /\ 0 \in Nat
      BY <2>3 DEF NotBehind, Levels
    <3>5. NotNewer(old, MessageOut(old.id))
      BY <1>2, <3>1, <3>2, <3>3, <3>4 DEF OrderInv, InOrder
    <3> QED  BY <1>2, <2>3, <3>2, <3>3, <3>5 DEF NotNewer
  <2> QED  BY <2>1, <2>2, <2>3 DEF NotNewer
<1>7. RowsExist'
  <2> SUFFICES ASSUME NEW k \in Levels, NEW n \in Nat, NEW row \in OutRow, At(k, n, row)'
               PROVE  row.id \in MessageIds'
    BY DEF RowsExist
  <2> QED  BY <1>1, <1>5 DEF OrderInv, RowsExist
<1>8. StoreInOrder'
  <2> SUFFICES ASSUME NEW i \in DOMAIN messages_store
               PROVE  /\ messages_store[i].id \in MessageIds'
                      /\ \A k \in Levels, n \in Nat, row \in OutRow :
                            At(k, n, row)' => ShownNotNewer(messages_store[i], row)
    BY <1>4 DEF StoreInOrder, ShownNotNewer, DeletedText
  <2>1. messages_store[i].id \in MessageIds
    BY DEF OrderInv, StoreInOrder
  <2>2. ASSUME NEW k \in Levels, NEW n \in Nat, NEW row \in OutRow, At(k, n, row)'
        PROVE  ShownNotNewer(messages_store[i], row)
    <3>1. CASE k # 5
      BY <1>5, <2>2, <3>1 DEF OrderInv, StoreInOrder
    <3>2. CASE k = 5 /\ messages_store[i].id = row.id
      <4>1. At(5, 0, MessageOut(row.id)) /\ NotNewer(MessageOut(row.id), row)
        BY <1>5, <2>1, <2>2, <3>2
      <4>2. 5 \in Levels /\ 0 \in Nat
        BY DEF Levels
      <4>3. ShownNotNewer(messages_store[i], MessageOut(row.id))
        BY <1>2, <2>1, <3>2, <4>1, <4>2 DEF OrderInv, StoreInOrder
      <4> QED  BY <1>2, <2>1, <3>2, <4>1, <4>3 DEF NotNewer, ShownNotNewer
    <3> QED  BY <3>1, <3>2 DEF ShownNotNewer
  <2> QED  BY <1>1, <2>1, <2>2
<1> QED  BY <1>6, <1>7, <1>8

----------------------------------------------------------------------------
(* The server and the connection *)

\* The sequences that are shortened and extended.
LEMMA TailElements ==
    ASSUME NEW S, NEW s \in Seq(S), s # << >>
    PROVE  /\ Head(s) = s[1] /\ s[1] \in S /\ 1 \in DOMAIN s
           /\ Tail(s) \in Seq(S)
           /\ \A i \in DOMAIN Tail(s) :
                 i \in Nat /\ i + 1 \in DOMAIN s /\ Tail(s)[i] = s[i + 1]
<1>1. /\ Len(s) \in Nat \ {0} /\ DOMAIN s = 1..Len(s) /\ Head(s) = s[1]
      /\ Tail(s) \in Seq(S) /\ Len(Tail(s)) = Len(s) - 1
      /\ \A i \in 1..Len(Tail(s)) : Tail(s)[i] = s[i + 1]
  BY EmptySeq, HeadTailProperties
<1>2. DOMAIN Tail(s) = 1..(Len(s) - 1)
  BY <1>1
<1>3. \A i \in 1..(Len(s) - 1) : i \in Nat /\ i + 1 \in 1..Len(s)
  BY <1>1
<1>4. 1 \in DOMAIN s /\ s[1] \in S
  BY <1>1
<1> QED  BY <1>1, <1>2, <1>3, <1>4

LEMMA AppendElements ==
    ASSUME NEW S, NEW s \in Seq(S), NEW x \in S
    PROVE  /\ Append(s, x) \in Seq(S) /\ Append(s, x) # << >>
           /\ s = << >> => Append(s, x)[1] = x
           /\ s # << >> => Append(s, x)[1] = s[1]
           /\ Len(s) \in Nat /\ DOMAIN s = 1..Len(s)
           /\ \A i \in DOMAIN Append(s, x) :
                 \/ i \in DOMAIN s /\ Append(s, x)[i] = s[i]
                 \/ i = Len(s) + 1 /\ Append(s, x)[i] = x
<1>1. /\ Append(s, x) \in Seq(S) /\ Append(s, x) # << >>
      /\ Len(s) \in Nat /\ DOMAIN s = 1..Len(s)
      /\ Len(Append(s, x)) = Len(s) + 1
      /\ \A i \in 1..Len(s) : Append(s, x)[i] = s[i]
      /\ Append(s, x)[Len(s) + 1] = x
  BY AppendProperties
<1>2. DOMAIN Append(s, x) = 1..(Len(s) + 1)
  BY <1>1
<1>3. \A i \in 1..(Len(s) + 1) : i \in 1..Len(s) \/ i = Len(s) + 1
  BY <1>1
<1>4. s # << >> => 1 \in 1..Len(s)
  BY <1>1, EmptySeq
<1>5. s = << >> => Len(s) + 1 = 1
  BY EmptySeq
<1> QED  BY <1>1, <1>2, <1>3, <1>4, <1>5

\* What SSL_write adds to the connection.
LEMMA Written ==
    ASSUME NEW reply \in String, wire \in Seq(Record), SslWrite(reply, RecordsOf(reply))
    PROVE  /\ wire' \in Seq(Record) /\ Len(wire) \in Nat
           /\ \A i \in DOMAIN wire' :
                 \/ i \in 1..Len(wire) /\ i \in DOMAIN wire /\ wire'[i] = wire[i]
                 \/ i \in Nat /\ i > Len(wire) /\ wire'[i].string = reply
<1> DEFINE N == RecordsOf(reply)
           new == Records(reply, N)
<1>1. N \in Nat
  <2>1. Len(reply) \in Nat /\ (reply # << >> => Len(reply) # 0)
    BY EmptySeq DEF String
  <2>2. \A a \in Nat, b \in Nat \ {0} : a \div b \in Nat
    OBVIOUS
  <2>3. reply # << >> => Len(reply) + RowsPerRecord - 1 \in Nat
    BY <2>1, ViewAssumption
  <2> QED  BY <2>2, <2>3, ViewAssumption DEF RecordsOf
<1>2. /\ new \in [1..N -> Record]
      /\ \A i \in 1..N : new[i].string = reply
  BY <1>1 DEF Records, Record
<1>3. new \in Seq(Record) /\ Len(new) = N
  BY <1>1, <1>2
<1>4. wire' = wire \o new
  BY DEF SslWrite
<1> HIDE DEF N, new
<1>5. /\ wire' \in Seq(Record) /\ Len(wire') = Len(wire) + N
      /\ \A i \in 1..(Len(wire) + N) :
            wire'[i] = IF i <= Len(wire) THEN wire[i] ELSE new[i - Len(wire)]
  BY <1>3, <1>4, ConcatProperties
<1>6. Len(wire) \in Nat /\ DOMAIN wire = 1..Len(wire) /\ DOMAIN wire' = 1..(Len(wire) + N)
  BY <1>1, <1>5
<1>7. \A i \in 1..(Len(wire) + N) :
         i \in 1..Len(wire) \/ (i \in Nat /\ i > Len(wire) /\ i - Len(wire) \in 1..N)
  BY <1>1, <1>6
<1>8. \A i \in 1..Len(wire) : i <= Len(wire) /\ i \in 1..(Len(wire) + N)
  BY <1>1, <1>6
<1>9. \A i \in Nat : i > Len(wire) => ~(i <= Len(wire))
  BY <1>6
<1> QED  BY <1>2, <1>5, <1>6, <1>7, <1>8, <1>9

\* A reply is read from the table and goes behind all that is on its way.
LEMMA AnswerOrder ==
    ASSUME OrderInv, NEW reply \in String, Answer(reply),
           \A row : HasRow(reply, row) => \E m \in MessageIds : row = MessageOut(m)
    PROVE  FlightTypeOK' /\ InOrder' /\ RowsExist' /\ StoreInOrder'
<1> DEFINE level == [k \in Levels |-> [n \in Nat |-> IF k = 4 /\ n > Len(wire) THEN 5 ELSE k]]
           index == [k \in Levels |-> [n \in Nat |-> IF k = 4 /\ n > Len(wire) THEN 0 ELSE n]]
<1>1. /\ wire' \in Seq(Record) /\ Len(wire) \in Nat
      /\ \A i \in DOMAIN wire' :
            \/ i \in 1..Len(wire) /\ i \in DOMAIN wire /\ wire'[i] = wire[i]
            \/ i \in Nat /\ i > Len(wire) /\ wire'[i].string = reply
  BY Written DEF OrderInv, FlightTypeOK, Answer
<1>2. UNCHANGED <<tables, buffer, data_queue, idle, rows, messages_store>>
  BY DEF Answer, view
<1>3. FlightTypeOK'
  BY <1>1, <1>2 DEF OrderInv, FlightTypeOK, DatabaseTypeOK, tables
<1>4. /\ level \in [Levels -> [Nat -> Levels]]
      /\ index \in [Levels -> [Nat -> Nat]]
      /\ \A k \in Levels, n \in Nat :
            /\ level[k][n] = IF k = 4 /\ n > Len(wire) THEN 5 ELSE k
            /\ index[k][n] = IF k = 4 /\ n > Len(wire) THEN 0 ELSE n
  BY <1>1 DEF Levels
<1> HIDE DEF level, index
<1>5. \A k, l \in Levels, n, p \in Nat :
         NotBehind(k, n, l, p) =>
            NotBehind(level[k][n], index[k][n], level[l][p], index[l][p])
  <2> SUFFICES ASSUME NEW k \in Levels, NEW l \in Levels, NEW n \in Nat, NEW p \in Nat,
                      NotBehind(k, n, l, p)
               PROVE  NotBehind(level[k][n], index[k][n], level[l][p], index[l][p])
    OBVIOUS
  <2>1. k \in Nat /\ l \in Nat /\ l <= 5
    BY DEF Levels
  <2>2. CASE k = 4 /\ n > Len(wire)
    <3>1. level[k][n] = 5 /\ index[k][n] = 0
      BY <1>4, <2>2
    <3>2. l = 5 \/ (l = 4 /\ p > Len(wire))
      BY <1>1, <2>1, <2>2 DEF NotBehind
    <3>3. level[l][p] = 5
      BY <1>4, <3>2
    <3>4. index[l][p] \in Nat
      BY <1>4
    <3> QED  BY <3>1, <3>3, <3>4 DEF NotBehind
  <2>3. CASE ~(k = 4 /\ n > Len(wire))
    <3>1. level[k][n] = k /\ index[k][n] = n
      BY <1>4, <2>3
    <3>2. CASE l = 4 /\ p > Len(wire)
      <4>1. level[l][p] = 5
        BY <1>4, <3>2
      <4>2. k < 5
        BY <2>1, <3>2 DEF NotBehind
      <4> QED  BY <3>1, <4>1, <4>2 DEF NotBehind
    <3>3. CASE ~(l = 4 /\ p > Len(wire))
      <4>1. level[l][p] = l /\ index[l][p] = p
        BY <1>4, <3>3
      <4> QED  BY <3>1, <4>1
    <3> QED  BY <3>2, <3>3
  <2> QED  BY <2>2, <2>3
<1>6. \A m : MessageOut(m)' = MessageOut(m)
  BY <1>2 DEF MessageOut, tables, database_fetch_username, UserIds
<1>7. MessageIds' = MessageIds
  BY <1>2 DEF MessageIds, tables
<1>8. ASSUME NEW k \in Levels, NEW n \in Nat, NEW row \in OutRow, At(k, n, row)'
      PROVE  At(level[k][n], index[k][n], row)
  <2>1. CASE k = 4
    <3>1. n \in DOMAIN wire' /\ HasRow(wire'[n].string, row)
      BY <1>8, <2>1 DEF At, HasRow
    <3>2. CASE n > Len(wire)
      <4>1. HasRow(reply, row)
        BY <1>1, <3>1, <3>2
      <4>2. At(5, 0, row)
        BY <4>1 DEF At
      <4> QED  BY <1>4, <2>1, <3>2, <4>2
    <3>3. CASE ~(n > Len(wire))
      <4>1. At(4, n, row)
        BY <1>1, <3>1, <3>3 DEF At
      <4> QED  BY <1>4, <2>1, <3>3, <4>1
    <3> QED  BY <3>2, <3>3
  <2>2. CASE k # 4
    <3>1. At(k, n, row)
      BY <1>2, <1>6, <1>7, <1>8, <2>2 DEF At, HasRow
    <3> QED  BY <1>4, <2>2, <3>1
  <2> QED  BY <2>1, <2>2
<1> QED  BY <1>2, <1>3, <1>4, <1>5, <1>7, <1>8, Carried DEF OrderInv

\* What a lost connection leaves to be read.
LEMMA LeftOver ==
    ASSUME wire \in Seq(Record), ConnectionLost \/ Reconnects
    PROVE  /\ wire' \in Seq(Record)
           /\ \A i \in DOMAIN wire' : i \in DOMAIN wire /\ wire'[i] = wire[i]
<1>1. CASE ConnectionLost
  <2>1. PICK n \in 0..Len(wire) : wire' = SubSeq(wire, 1, n)
    BY <1>1 DEF ConnectionLost
  <2>2. /\ Len(wire) \in Nat /\ DOMAIN wire = 1..Len(wire)
        /\ \A i \in 1..Len(wire) : wire[i] \in Record
    OBVIOUS
  <2>3. n \in Nat /\ \A i \in 1..n : i \in 1..Len(wire)
    BY <2>2
  <2>4. wire' = [i \in 1..n |-> wire[i]]
    BY <2>1, <2>2, <2>3
  <2>5. [i \in 1..n |-> wire[i]] \in Seq(Record)
    BY <2>2, <2>3
  <2> QED  BY <2>2, <2>3, <2>4, <2>5
<1>2. CASE Reconnects
  BY <1>2 DEF Reconnects
<1> QED  BY <1>1, <1>2

\* Losing a connection loses rows and moves none.
LEMMA LostOrder ==
    ASSUME OrderInv, ConnectionLost \/ Reconnects
    PROVE  FlightTypeOK' /\ InOrder' /\ RowsExist' /\ StoreInOrder' /\ NoneNew
<1>1. UNCHANGED <<tables, data_queue, idle, rows, messages_store>>
  BY DEF ConnectionLost, Reconnects, view
<1>2. wire \in Seq(Record) /\ buffer \in Seq(Record)
  BY DEF OrderInv, FlightTypeOK
<1>3. /\ wire' \in Seq(Record)
      /\ \A i \in DOMAIN wire' : i \in DOMAIN wire /\ wire'[i] = wire[i]
  BY <1>2, LeftOver
<1>4. buffer' \in {buffer, << >>} /\ buffer' \in Seq(Record)
  BY <1>2 DEF ConnectionLost, Reconnects
<1>5. FlightTypeOK'
  BY <1>1, <1>3, <1>4 DEF OrderInv, FlightTypeOK, DatabaseTypeOK, tables
<1>6. \A m : MessageOut(m)' = MessageOut(m)
  BY <1>1 DEF MessageOut, tables, database_fetch_username, UserIds
<1>7. MessageIds' = MessageIds
  BY <1>1 DEF MessageIds, tables
<1>8. \A k \in Levels, n \in Nat, row \in OutRow : At(k, n, row)' => At(k, n, row)
  BY <1>1, <1>3, <1>4, <1>6, <1>7 DEF At, HasRow
<1> QED  BY <1>1, <1>5, <1>7, <1>8, NothingPassed DEF OrderInv

----------------------------------------------------------------------------
(* The controller and the queues *)

\* The first record of what is read comes from the buffer, or from the connection when
\* the buffer is empty.
LEMMA ControllerOrder ==
    ASSUME OrderInv, ControllerReads
    PROVE  FlightTypeOK' /\ InOrder' /\ RowsExist' /\ StoreInOrder' /\ NoneNew
<1> DEFINE read == Append(buffer, Head(wire))
           empty == buffer = << >>
           Pushed(k, n) == k = 3 \/ (k = 2 /\ n > Len(data_queue))
           level == [k \in Levels |-> [n \in Nat |->
                       IF Pushed(k, n) THEN (IF empty THEN 4 ELSE 3) ELSE k]]
           index == [k \in Levels |-> [n \in Nat |->
                       IF Pushed(k, n) THEN (IF empty THEN 1 ELSE 0)
                       ELSE IF k = 4 THEN n + 1 ELSE n]]
<1>1. /\ wire \in Seq(Record) /\ buffer \in Seq(Record) /\ data_queue \in Seq(ReadText)
      /\ wire # << >> /\ wire' = Tail(wire)
  BY DEF OrderInv, FlightTypeOK, ControllerReads, SslRead
<1>2. UNCHANGED <<tables, idle, rows, messages_store>>
  BY DEF ControllerReads, view
<1>3. /\ Head(wire) = wire[1] /\ wire[1] \in Record /\ 1 \in DOMAIN wire
      /\ Tail(wire) \in Seq(Record)
      /\ \A i \in DOMAIN wire' : i \in Nat /\ i + 1 \in DOMAIN wire /\ wire'[i] = wire[i + 1]
  BY <1>1, TailElements
<1>4. /\ read \in ReadText /\ read \in Seq(Record)
      /\ empty => read[1] = wire[1]
      /\ ~empty => read[1] = buffer[1]
  BY <1>1, <1>3, AppendElements DEF ReadText
<1>5. /\ data_queue' \in {data_queue, Append(data_queue, read)}
      /\ buffer' \in {read, << >>}
  BY DEF ControllerReads, SslRead
<1> HIDE DEF read
<1>6. /\ data_queue' \in Seq(ReadText) /\ Len(data_queue) \in Nat
      /\ DOMAIN data_queue = 1..Len(data_queue)
      /\ \A i \in DOMAIN data_queue' :
            \/ i \in DOMAIN data_queue /\ data_queue'[i] = data_queue[i]
            \/ i = Len(data_queue) + 1 /\ data_queue'[i] = read
  <2>1. CASE data_queue' = data_queue
    BY <1>1, <2>1
  <2>2. CASE data_queue' = Append(data_queue, read)
    BY <1>1, <1>4, <2>2, AppendElements
  <2> QED  BY <1>5, <2>1, <2>2
<1>7. FlightTypeOK'
  <2>1. << >> \in Seq(Record)
    OBVIOUS
  <2> QED  BY <1>1, <1>2, <1>3, <1>4, <1>5, <1>6, <2>1
           DEF OrderInv, FlightTypeOK, DatabaseTypeOK, tables
<1>8. /\ level \in [Levels -> [Nat -> Levels]]
      /\ index \in [Levels -> [Nat -> Nat]]
  BY DEF Levels
<1>9. \A k \in Levels, n \in Nat :
         /\ level[k][n] = IF Pushed(k, n) THEN (IF empty THEN 4 ELSE 3) ELSE k
         /\ index[k][n] = IF Pushed(k, n) THEN (IF empty THEN 1 ELSE 0)
                          ELSE IF k = 4 THEN n + 1 ELSE n
  OBVIOUS
<1> HIDE DEF level, index, empty
<1>10. \A k, l \in Levels, n, p \in Nat :
          NotBehind(k, n, l, p) =>
             NotBehind(level[k][n], index[k][n], level[l][p], index[l][p])
  <2> SUFFICES ASSUME NEW k \in Levels, NEW l \in Levels, NEW n \in Nat, NEW p \in Nat,
                      NotBehind(k, n, l, p)
               PROVE  NotBehind(level[k][n], index[k][n], level[l][p], index[l][p])
    OBVIOUS
  <2>1. k \in Nat /\ l \in Nat
    BY DEF Levels
  <2>2. CASE Pushed(k, n) /\ Pushed(l, p)
    <3>1. level[k][n] = level[l][p] /\ index[k][n] = index[l][p]
      BY <1>9, <2>2
    <3>2. index[k][n] \in Nat
      BY <1>8
    <3> QED  BY <3>1, <3>2 DEF NotBehind
  <2>3. CASE Pushed(k, n) /\ ~Pushed(l, p)
    <3>1. l > 3
      BY <1>6, <2>1, <2>3 DEF NotBehind
    <3>2. level[l][p] = l /\ index[l][p] = IF l = 4 THEN p + 1 ELSE p
      BY <1>9, <2>3
    <3>3. /\ level[k][n] = IF empty THEN 4 ELSE 3
          /\ index[k][n] = IF empty THEN 1 ELSE 0
      BY <1>9, <2>3
    <3> QED  BY <2>1, <3>1, <3>2, <3>3 DEF NotBehind
  <2>4. CASE ~Pushed(k, n) /\ Pushed(l, p)
    <3>1. k < 3
      BY <1>6, <2>1, <2>4 DEF NotBehind
    <3>2. level[k][n] = k
      BY <1>9, <2>4
    <3>3. level[l][p] = IF empty THEN 4 ELSE 3
      BY <1>9, <2>4
    <3> QED  BY <2>1, <3>1, <3>2, <3>3 DEF NotBehind
  <2>5. CASE ~Pushed(k, n) /\ ~Pushed(l, p)
    <3>1. level[k][n] = k /\ index[k][n] = IF k = 4 THEN n + 1 ELSE n
      BY <1>9, <2>5
    <3>2. level[l][p] = l /\ index[l][p] = IF l = 4 THEN p + 1 ELSE p
      BY <1>9, <2>5
    <3> QED  BY <3>1, <3>2 DEF NotBehind
  <2> QED  BY <2>2, <2>3, <2>4, <2>5
<1>11. \A m : MessageOut(m)' = MessageOut(m)
  BY <1>2 DEF MessageOut, tables, database_fetch_username, UserIds
<1>12. MessageIds' = MessageIds
  BY <1>2 DEF MessageIds, tables
<1>13. \A row : HasRow(read[1].string, row) =>
                   IF empty THEN At(4, 1, row) ELSE At(3, 0, row)
  BY <1>3, <1>4 DEF At, empty
<1>14. ASSUME NEW k \in Levels, NEW n \in Nat, NEW row \in OutRow, At(k, n, row)'
       PROVE  At(level[k][n], index[k][n], row)
  <2>1. CASE Pushed(k, n)
    <3>1. HasRow(read[1].string, row)
      <4>1. CASE k = 3
        <5>1. buffer' # << >> /\ HasRow(buffer'[1].string, row)
          BY <1>14, <4>1 DEF At, HasRow
        <5> QED  BY <1>5, <5>1
      <4>2. CASE k = 2 /\ n > Len(data_queue)
        <5>1. n \in DOMAIN data_queue' /\ HasRow(data_queue'[n][1].string, row)
          BY <1>14, <4>2 DEF At, HasRow
        <5>2. n \notin DOMAIN data_queue
          BY <1>6, <4>2
        <5> QED  BY <1>6, <5>1, <5>2
      <4> QED  BY <2>1, <4>1, <4>2
    <3>2. level[k][n] = (IF empty THEN 4 ELSE 3) /\ index[k][n] = (IF empty THEN 1 ELSE 0)
      BY <1>9, <2>1
    <3> QED  BY <1>13, <3>1, <3>2
  <2>2. CASE k = 4
    <3>1. n \in DOMAIN wire' /\ HasRow(wire'[n].string, row)
      BY <1>14, <2>2 DEF At, HasRow
    <3>2. At(4, n + 1, row)
      BY <1>3, <3>1 DEF At
    <3>3. level[k][n] = 4 /\ index[k][n] = n + 1
      BY <1>9, <2>2
    <3> QED  BY <3>2, <3>3
  <2>3. CASE k # 4 /\ ~Pushed(k, n)
    <3>1. At(k, n, row)
      <4>1. CASE k = 2
        <5>1. n \in DOMAIN data_queue' /\ HasRow(data_queue'[n][1].string, row)
          BY <1>14, <4>1 DEF At, HasRow
        <5>2. n # Len(data_queue) + 1
          BY <1>6, <2>3, <4>1
        <5> QED  BY <1>6, <4>1, <5>1, <5>2 DEF At
      <4>2. CASE k # 2
        BY <1>2, <1>11, <1>12, <1>14, <2>3, <4>2 DEF At, HasRow
      <4> QED  BY <4>1, <4>2
    <3>2. level[k][n] = k /\ index[k][n] = n
      BY <1>9, <2>3
    <3> QED  BY <3>1, <3>2
  <2> QED  BY <2>1, <2>2, <2>3
<1>15. ASSUME NEW k \in 0..4, NEW n \in Nat PROVE level[k][n] \in 0..4
  <2>1. k \in Levels
    BY DEF Levels
  <2>2. level[k][n] = IF Pushed(k, n) THEN (IF empty THEN 4 ELSE 3) ELSE k
    BY <1>9, <2>1
  <2> QED  BY <2>2
<1> QED  BY <1>2, <1>7, <1>8, <1>10, <1>12, <1>14, <1>15, Carried DEF OrderInv

\* check_and_process_data moves the first text of data_queue behind all in idle.
LEMMA PopOrder ==
    ASSUME OrderInv, PopQueue
    PROVE  FlightTypeOK' /\ InOrder' /\ RowsExist' /\ StoreInOrder' /\ NoneNew
<1> DEFINE Popped(k, n) == k = 1 /\ n > Len(idle)
           level == [k \in Levels |-> [n \in Nat |-> IF Popped(k, n) THEN 2 ELSE k]]
           index == [k \in Levels |-> [n \in Nat |->
                       IF Popped(k, n) THEN 1 ELSE IF k = 2 THEN n + 1 ELSE n]]
<1>1. /\ data_queue \in Seq(ReadText) /\ idle \in Seq(ReadText)
      /\ data_queue # << >> /\ data_queue' = Tail(data_queue)
      /\ idle' = Append(idle, Head(data_queue))
  BY DEF OrderInv, FlightTypeOK, PopQueue
<1>2. UNCHANGED <<tables, wire, buffer, rows, messages_store>>
  BY DEF PopQueue, view
<1>3. /\ Head(data_queue) = data_queue[1] /\ data_queue[1] \in ReadText
      /\ 1 \in DOMAIN data_queue
      /\ data_queue' \in Seq(ReadText)
      /\ \A i \in DOMAIN data_queue' :
            i \in Nat /\ i + 1 \in DOMAIN data_queue /\ data_queue'[i] = data_queue[i + 1]
  BY <1>1, TailElements
<1>4. /\ idle' \in Seq(ReadText) /\ Len(idle) \in Nat /\ DOMAIN idle = 1..Len(idle)
      /\ \A i \in DOMAIN idle' :
            \/ i \in DOMAIN idle /\ idle'[i] = idle[i]
            \/ i = Len(idle) + 1 /\ idle'[i] = data_queue[1]
  BY <1>1, <1>3, AppendElements
<1>5. FlightTypeOK'
  BY <1>2, <1>3, <1>4 DEF OrderInv, FlightTypeOK, DatabaseTypeOK, tables
<1>6. /\ level \in [Levels -> [Nat -> Levels]]
      /\ index \in [Levels -> [Nat -> Nat]]
  BY DEF Levels
<1>7. \A k \in Levels, n \in Nat :
         /\ level[k][n] = IF Popped(k, n) THEN 2 ELSE k
         /\ index[k][n] = IF Popped(k, n) THEN 1 ELSE IF k = 2 THEN n + 1 ELSE n
  OBVIOUS
<1> HIDE DEF level, index
<1>8. \A k, l \in Levels, n, p \in Nat :
         NotBehind(k, n, l, p) =>
            NotBehind(level[k][n], index[k][n], level[l][p], index[l][p])
  <2> SUFFICES ASSUME NEW k \in Levels, NEW l \in Levels, NEW n \in Nat, NEW p \in Nat,
                      NotBehind(k, n, l, p)
               PROVE  NotBehind(level[k][n], index[k][n], level[l][p], index[l][p])
    OBVIOUS
  <2>1. k \in Nat /\ l \in Nat
    BY DEF Levels
  <2>2. CASE Popped(k, n) /\ Popped(l, p)
    <3>1. level[k][n] = 2 /\ level[l][p] = 2 /\ index[k][n] = 1 /\ index[l][p] = 1
      BY <1>7, <2>2
    <3> QED  BY <3>1 DEF NotBehind
  <2>3. CASE Popped(k, n) /\ ~Popped(l, p)
    <3>1. l > 1
      BY <1>4, <2>1, <2>3 DEF NotBehind
    <3>2. level[l][p] = l /\ index[l][p] = IF l = 2 THEN p + 1 ELSE p
      BY <1>7, <2>3
    <3>3. level[k][n] = 2 /\ index[k][n] = 1
      BY <1>7, <2>3
    <3> QED  BY <2>1, <3>1, <3>2, <3>3 DEF NotBehind
  <2>4. CASE ~Popped(k, n) /\ Popped(l, p)
    <3>1. k < 2
      BY <1>4, <2>1, <2>4 DEF NotBehind
    <3>2. level[k][n] = k
      BY <1>7, <2>4
    <3>3. level[l][p] = 2
      BY <1>7, <2>4
    <3> QED  BY <2>1, <3>1, <3>2, <3>3 DEF NotBehind
  <2>5. CASE ~Popped(k, n) /\ ~Popped(l, p)
    <3>1. level[k][n] = k /\ index[k][n] = IF k = 2 THEN n + 1 ELSE n
      BY <1>7, <2>5
    <3>2. level[l][p] = l /\ index[l][p] = IF l = 2 THEN p + 1 ELSE p
      BY <1>7, <2>5
    <3> QED  BY <3>1, <3>2 DEF NotBehind
  <2> QED  BY <2>2, <2>3, <2>4, <2>5
<1>9. \A m : MessageOut(m)' = MessageOut(m)
  BY <1>2 DEF MessageOut, tables, database_fetch_username, UserIds
<1>10. MessageIds' = MessageIds
  BY <1>2 DEF MessageIds, tables
<1>11. ASSUME NEW k \in Levels, NEW n \in Nat, NEW row \in OutRow, At(k, n, row)'
       PROVE  At(level[k][n], index[k][n], row)
  <2>1. CASE k = 1
    <3>1. n \in DOMAIN idle' /\ HasRow(idle'[n][1].string, row)
      BY <1>11, <2>1 DEF At, HasRow
    <3>2. CASE n > Len(idle)
      <4>1. idle'[n] = data_queue[1]
        BY <1>4, <3>1, <3>2
      <4>2. At(2, 1, row)
        BY <1>3, <3>1, <4>1 DEF At
      <4>3. level[k][n] = 2 /\ index[k][n] = 1
        BY <1>7, <2>1, <3>2
      <4> QED  BY <4>2, <4>3
    <3>3. CASE ~(n > Len(idle))
      <4>1. At(1, n, row)
        BY <1>4, <3>1, <3>3 DEF At
      <4>2. level[k][n] = 1 /\ index[k][n] = n
        BY <1>7, <2>1, <3>3
      <4> QED  BY <4>1, <4>2
    <3> QED  BY <3>2, <3>3
  <2>2. CASE k = 2
    <3>1. n \in DOMAIN data_queue' /\ HasRow(data_queue'[n][1].string, row)
      BY <1>11, <2>2 DEF At, HasRow
    <3>2. At(2, n + 1, row)
      BY <1>3, <3>1 DEF At
    <3>3. level[k][n] = 2 /\ index[k][n] = n + 1
      BY <1>7, <2>2
    <3> QED  BY <3>2, <3>3
  <2>3. CASE k # 1 /\ k # 2
    <3>1. At(k, n, row)
      BY <1>2, <1>9, <1>10, <1>11, <2>3 DEF At, HasRow
    <3>2. level[k][n] = k /\ index[k][n] = n
      BY <1>7, <2>3
    <3> QED  BY <3>1, <3>2
  <2> QED  BY <2>1, <2>2, <2>3
<1>12. ASSUME NEW k \in 0..4, NEW n \in Nat PROVE level[k][n] \in 0..4
  <2>1. k \in Levels
    BY DEF Levels
  <2>2. level[k][n] = IF Popped(k, n) THEN 2 ELSE k
    BY <1>7, <2>1
  <2> QED  BY <2>2
<1> QED  BY <1>2, <1>5, <1>6, <1>8, <1>10, <1>11, <1>12, Carried DEF OrderInv

\* The first text in idle is the one that is handled.
LEMMA StartOrder ==
    ASSUME OrderInv, StartReply
    PROVE  FlightTypeOK' /\ InOrder' /\ RowsExist' /\ StoreInOrder' /\ NoneNew
<1> DEFINE level == [k \in Levels |-> [n \in Nat |-> IF k = 0 THEN 1 ELSE k]]
           index == [k \in Levels |-> [n \in Nat |->
                       IF k = 0 THEN 1 ELSE IF k = 1 THEN n + 1 ELSE n]]
<1>1. idle \in Seq(ReadText) /\ idle # << >> /\ idle' = Tail(idle)
  BY DEF OrderInv, FlightTypeOK, StartReply
<1>2. UNCHANGED <<tables, transport, messages_store>>
  BY DEF StartReply, view
<1>3. /\ Head(idle) = idle[1] /\ idle[1] \in ReadText /\ 1 \in DOMAIN idle
      /\ idle' \in Seq(ReadText)
      /\ \A i \in DOMAIN idle' : i \in Nat /\ i + 1 \in DOMAIN idle /\ idle'[i] = idle[i + 1]
  BY <1>1, TailElements
<1>4. rows' \in {idle[1][1].string, << >>}
  BY <1>3 DEF StartReply
<1>5. idle[1][1].string \in String
  <2>1. idle[1] \in Seq(Record) /\ idle[1] # << >>
    BY <1>3 DEF ReadText
  <2>2. idle[1][1] \in Record
    BY <2>1, TailElements
  <2> QED  BY <2>2 DEF Record
<1>6. FlightTypeOK'
  <2>1. << >> \in String
    BY DEF String
  <2> QED  BY <1>2, <1>3, <1>4, <1>5, <2>1
           DEF OrderInv, FlightTypeOK, DatabaseTypeOK, tables, transport
<1>7. /\ level \in [Levels -> [Nat -> Levels]]
      /\ index \in [Levels -> [Nat -> Nat]]
  BY DEF Levels
<1>8. \A k \in Levels, n \in Nat :
         /\ level[k][n] = IF k = 0 THEN 1 ELSE k
         /\ index[k][n] = IF k = 0 THEN 1 ELSE IF k = 1 THEN n + 1 ELSE n
  OBVIOUS
<1> HIDE DEF level, index
<1>9. \A k, l \in Levels, n, p \in Nat :
         NotBehind(k, n, l, p) =>
            NotBehind(level[k][n], index[k][n], level[l][p], index[l][p])
  <2> SUFFICES ASSUME NEW k \in Levels, NEW l \in Levels, NEW n \in Nat, NEW p \in Nat,
                      NotBehind(k, n, l, p)
               PROVE  NotBehind(level[k][n], index[k][n], level[l][p], index[l][p])
    OBVIOUS
  <2>1. k \in Nat /\ l \in Nat
    BY DEF Levels
  <2>2. /\ level[k][n] = IF k = 0 THEN 1 ELSE k
        /\ index[k][n] = IF k = 0 THEN 1 ELSE IF k = 1 THEN n + 1 ELSE n
    BY <1>8
  <2>3. /\ level[l][p] = IF l = 0 THEN 1 ELSE l
        /\ index[l][p] = IF l = 0 THEN 1 ELSE IF l = 1 THEN p + 1 ELSE p
    BY <1>8
  <2>4. index[k][n] \in Nat /\ index[l][p] \in Nat
    BY <1>7
  <2>5. CASE k = 0 /\ l = 0
    <3>1. level[k][n] = 1 /\ level[l][p] = 1 /\ index[k][n] = 1 /\ index[l][p] = 1
      BY <2>2, <2>3, <2>5
    <3> QED  BY <3>1 DEF NotBehind
  <2>6. CASE k = 0 /\ l # 0
    <3>1. level[k][n] = 1 /\ index[k][n] = 1 /\ level[l][p] = l
      BY <2>2, <2>3, <2>6
    <3>2. l = 1 => index[l][p] = p + 1
      BY <2>3
    <3> QED  BY <2>1, <2>6, <3>1, <3>2 DEF NotBehind
  <2>7. CASE k # 0
    <3>1. l # 0 /\ (k < l \/ (k = l /\ n <= p))
      BY <2>1, <2>7 DEF NotBehind
    <3>2. level[k][n] = k /\ level[l][p] = l
      BY <2>2, <2>3, <2>7, <3>1
    <3>3. ASSUME k = l PROVE index[k][n] <= index[l][p]
      <4>1. n <= p /\ n + 1 <= p + 1
        BY <2>1, <3>1, <3>3
      <4>2. CASE k = 1
        <5>1. index[k][n] = n + 1
          BY <2>2, <4>2
        <5>2. index[l][p] = p + 1
          BY <2>3, <3>3, <4>2
        <5> QED  BY <4>1, <5>1, <5>2
      <4>3. CASE k # 1
        <5>1. index[k][n] = n
          BY <2>2, <2>7, <4>3
        <5>2. index[l][p] = p
          BY <2>3, <3>1, <3>3, <4>3
        <5> QED  BY <4>1, <5>1, <5>2
      <4> QED  BY <4>2, <4>3
    <3> QED  BY <3>1, <3>2, <3>3 DEF NotBehind
  <2> QED  BY <2>5, <2>6, <2>7
<1>10. \A m : MessageOut(m)' = MessageOut(m)
  BY <1>2 DEF MessageOut, tables, database_fetch_username, UserIds
<1>11. MessageIds' = MessageIds
  BY <1>2 DEF MessageIds, tables
<1>12. ASSUME NEW k \in Levels, NEW n \in Nat, NEW row \in OutRow, At(k, n, row)'
       PROVE  At(level[k][n], index[k][n], row)
  <2>1. CASE k = 0
    <3>1. HasRow(rows', row)
      BY <1>12, <2>1 DEF At, HasRow
    <3>2. DOMAIN << >> = {}
      OBVIOUS
    <3>3. HasRow(idle[1][1].string, row)
      BY <1>4, <3>1, <3>2 DEF HasRow
    <3>4. At(1, 1, row)
      BY <1>3, <3>3 DEF At
    <3>5. level[k][n] = 1 /\ index[k][n] = 1
      BY <1>8, <2>1
    <3> QED  BY <3>4, <3>5
  <2>2. CASE k = 1
    <3>1. n \in DOMAIN idle' /\ HasRow(idle'[n][1].string, row)
      BY <1>12, <2>2 DEF At, HasRow
    <3>2. At(1, n + 1, row)
      BY <1>3, <3>1 DEF At
    <3>3. level[k][n] = 1 /\ index[k][n] = n + 1
      BY <1>8, <2>2
    <3> QED  BY <3>2, <3>3
  <2>3. CASE k # 0 /\ k # 1
    <3>1. At(k, n, row)
      BY <1>2, <1>10, <1>11, <1>12, <2>3 DEF At, HasRow, transport
    <3>2. level[k][n] = k /\ index[k][n] = n
      BY <1>8, <2>3
    <3> QED  BY <3>1, <3>2
  <2> QED  BY <2>1, <2>2, <2>3
<1>13. ASSUME NEW k \in 0..4, NEW n \in Nat PROVE level[k][n] \in 0..4
  <2>1. k \in Levels
    BY DEF Levels
  <2>2. level[k][n] = IF k = 0 THEN 1 ELSE k
    BY <1>8, <2>1
  <2> QED  BY <2>2
<1> QED  BY <1>2, <1>6, <1>7, <1>9, <1>11, <1>12, <1>13, Carried DEF OrderInv

----------------------------------------------------------------------------
(* The view *)

\* What the loop leaves in the store are the row it has handled and rows it found.
LEMMA RowsHandled ==
    ASSUME MirrorInv, HandleRow
    PROVE  \A i \in DOMAIN messages_store' :
              \/ messages_store'[i] = Shown(Head(rows))
              \/ \E j \in DOMAIN messages_store : messages_store'[i] = messages_store[j]
<1> DEFINE row == Head(rows)
           known == \E i \in DOMAIN Kept.list : Kept.list[i] = row.id
<1>1. \A i \in DOMAIN Kept.store :
         i \in DOMAIN messages_store /\ Kept.store[i] = messages_store[i]
  <2>1. Kept.store = << >> \/ Kept.store = messages_store
    BY DEF Kept
  <2>2. DOMAIN << >> = {}
    OBVIOUS
  <2> QED  BY <2>1, <2>2
<1>2. CASE OnlyUpdates(row)
  <2>1. messages_store' = UpdateModel(Kept.store, row)
    BY <1>2 DEF HandleRow
  <2> QED  BY <1>1, <2>1 DEF UpdateModel
<1>3. CASE ~OnlyUpdates(row) /\ ~known
  <2>1. messages_store' = Append(Kept.store, Shown(row))
    BY <1>3 DEF HandleRow
  <2>2. IsSeq(Kept.store)
    BY KeptMirrors DEF Mirrors
  <2>3. /\ Len(Kept.store) \in Nat /\ DOMAIN Kept.store = 1..Len(Kept.store)
        /\ DOMAIN messages_store' = 1..(Len(Kept.store) + 1)
        /\ \A i \in 1..Len(Kept.store) : messages_store'[i] = Kept.store[i]
        /\ messages_store'[Len(Kept.store) + 1] = Shown(row)
    BY <2>1, <2>2, AppendIsSeq
  <2>4. \A i \in DOMAIN messages_store' :
           i \in DOMAIN Kept.store \/ i = Len(Kept.store) + 1
    BY <2>3
  <2> QED  BY <1>1, <2>3, <2>4
<1>4. CASE ~OnlyUpdates(row) /\ known
  <2>1. messages_store' = Kept.store
    BY <1>4 DEF HandleRow
  <2> QED  BY <1>1, <2>1
<1> QED  BY <1>2, <1>3, <1>4

\* The row being handled is no newer than any other that is on its way, and is shown
\* as deleted just if it is.
LEMMA RowAtHand ==
    ASSUME OrderInv, HandleRow
    PROVE  /\ At(0, 0, Head(rows)) /\ Head(rows) \in OutRow
           /\ Head(rows).id \in MessageIds
           /\ \A k \in Levels, n \in Nat, row \in OutRow :
                 At(k, n, row) => ShownNotNewer(Shown(Head(rows)), row)
<1>1. rows \in Seq(OutRow) /\ rows # << >>
  BY DEF OrderInv, FlightTypeOK, String, HandleRow
<1>2. Head(rows) = rows[1] /\ rows[1] \in OutRow /\ 1 \in DOMAIN rows
  BY <1>1, TailElements
<1>3. At(0, 0, Head(rows)) /\ 0 \in Levels /\ 0 \in Nat
  BY <1>2 DEF At, HasRow, Levels
<1>4. ASSUME NEW k \in Levels, NEW n \in Nat, NEW row \in OutRow, At(k, n, row)
      PROVE  ShownNotNewer(Shown(Head(rows)), row)
  <2>1. NotBehind(0, 0, k, n)
    BY DEF NotBehind, Levels
  <2>2. NotNewer(Head(rows), row)
    BY <1>2, <1>3, <1>4, <2>1 DEF OrderInv, InOrder
  <2>3. Head(rows).row.body # DeletedText
    BY <1>2, ViewAssumption DEF OutRow, MessageRow
  <2>4. /\ Shown(Head(rows)).id = Head(rows).id
        /\ Shown(Head(rows)).text = DeletedText => Head(rows).row.deleted
        /\ Shown(Head(rows)).edited => Head(rows).row.updated
    BY <2>3 DEF Shown
  <2> QED  BY <2>2, <2>4 DEF NotNewer, ShownNotNewer
<1> QED  BY <1>2, <1>3, <1>4 DEF OrderInv, RowsExist

\* The loop leaves in the store rows that were no newer than any on its way.
LEMMA HandleOrder ==
    ASSUME OrderInv, HandleRow
    PROVE  FlightTypeOK' /\ InOrder' /\ RowsExist' /\ StoreInOrder' /\ NoneNew
<1>1. UNCHANGED <<tables, transport, idle>>
  BY DEF HandleRow
<1>2. rows \in Seq(OutRow) /\ rows # << >> /\ rows' = Tail(rows)
  BY DEF OrderInv, FlightTypeOK, String, HandleRow
<1>3. /\ rows' \in Seq(OutRow)
      /\ \A i \in DOMAIN rows' : i + 1 \in DOMAIN rows /\ rows'[i] = rows[i + 1]
  BY <1>2, TailElements
<1>4. FlightTypeOK'
  BY <1>1, <1>3 DEF OrderInv, FlightTypeOK, DatabaseTypeOK, String, tables, transport
<1>5. \A m : MessageOut(m)' = MessageOut(m)
  BY <1>1 DEF MessageOut, tables, database_fetch_username, UserIds
<1>6. MessageIds' = MessageIds
  BY <1>1 DEF MessageIds, tables
<1>7. ASSUME NEW k \in Levels, NEW n \in Nat, NEW row \in OutRow, At(k, n, row)'
      PROVE  At(k, n, row)
  <2>1. CASE k = 0
    BY <1>3, <1>7, <2>1 DEF At, HasRow
  <2>2. CASE k # 0
    BY <1>1, <1>5, <1>6, <1>7, <2>2 DEF At, HasRow, transport
  <2> QED  BY <2>1, <2>2
<1>8. InOrder' /\ RowsExist' /\ NoneNew
  BY <1>6, <1>7, NothingPassed DEF OrderInv
<1>9. StoreInOrder'
  <2> SUFFICES ASSUME NEW i \in DOMAIN messages_store'
               PROVE  /\ messages_store'[i].id \in MessageIds
                      /\ \A k \in Levels, n \in Nat, row \in OutRow :
                            At(k, n, row)' => ShownNotNewer(messages_store'[i], row)
    BY <1>6 DEF StoreInOrder, ShownNotNewer, DeletedText
  <2>1. CASE messages_store'[i] = Shown(Head(rows))
    <3>1. Shown(Head(rows)).id = Head(rows).id
      BY DEF Shown
    <3> QED  BY <1>7, <2>1, <3>1, RowAtHand
  <2>2. ASSUME NEW j \in DOMAIN messages_store, messages_store'[i] = messages_store[j]
        PROVE  /\ messages_store'[i].id \in MessageIds
               /\ \A k \in Levels, n \in Nat, row \in OutRow :
                     At(k, n, row)' => ShownNotNewer(messages_store'[i], row)
    BY <1>7, <2>2 DEF OrderInv, StoreInOrder
  <2> QED  BY <2>1, <2>2, RowsHandled DEF OrderInv
<1> QED  BY <1>4, <1>8, <1>9

\* Steps that touch no row on its way.
LEMMA StillOrder ==
    ASSUME OrderInv, UNCHANGED <<tables, transport, idle, rows>>,
           messages_store' \in {messages_store, << >>}
    PROVE  FlightTypeOK' /\ InOrder' /\ RowsExist' /\ StoreInOrder' /\ NoneNew
<1>1. FlightTypeOK'
  BY DEF OrderInv, FlightTypeOK, DatabaseTypeOK, tables, transport
<1>2. \A m : MessageOut(m)' = MessageOut(m)
  BY DEF MessageOut, tables, database_fetch_username, UserIds
<1>3. MessageIds' = MessageIds
  BY DEF MessageIds, tables
<1>4. \A k \in Levels, n \in Nat, row \in OutRow : At(k, n, row)' => At(k, n, row)
  BY <1>2, <1>3 DEF At, HasRow, transport
<1> QED  BY <1>1, <1>3, <1>4, NothingPassed DEF OrderInv

----------------------------------------------------------------------------

\* Each step keeps the order.
LEMMA StepOrder ==
    ASSUME OrderInv, [Next]_vars
    PROVE  FlightTypeOK' /\ InOrder' /\ RowsExist' /\ StoreInOrder'
<1>1. CASE Statement
  <2>1. UNCHANGED <<transport, idle, rows>>
    BY <1>1 DEF Statement
  <2> QED  BY <1>1, <2>1, StatementKeeps, StatementOrder DEF OrderInv, FlightTypeOK, transport
<1>2. CASE ServerAnswers
  <2>1. DatabaseTypeOK /\ Answer(ChatRows(Head(requests)))
    BY <1>2 DEF ServerAnswers, OrderInv, FlightTypeOK
  <2> QED  BY <2>1, ReplyRows, AnswerOrder
<1>3. CASE QueryFails
  <2>1. << >> \in String /\ DOMAIN << >> = {}
    BY DEF String
  <2>2. \A row : ~HasRow(<< >>, row)
    BY <2>1 DEF HasRow
  <2> QED  BY <1>3, <2>1, <2>2, AnswerOrder DEF QueryFails
<1>4. CASE ConnectionLost \/ Reconnects
  BY <1>4, LostOrder
<1>5. CASE ControllerReads
  BY <1>5, ControllerOrder
<1>6. CASE PopQueue
  BY <1>6, PopOrder
<1>7. CASE StartReply
  BY <1>7, StartOrder
<1>8. CASE HandleRow
  BY <1>8, HandleOrder
<1>9. CASE PollFires \/ Deselect \/ LogOut \/ (\E c \in 1..chats : SelectChat(c))
  <2>1. /\ UNCHANGED <<tables, transport, idle, rows>>
        /\ messages_store' \in {messages_store, << >>}
    BY <1>9 DEF PollFires, Deselect, LogOut, SelectChat, view
  <2> QED  BY <2>1, StillOrder
<1>10. CASE EndReply \/ UNCHANGED vars
  <2>1. UNCHANGED <<tables, transport, idle, rows, messages_store>>
    BY <1>10 DEF EndReply, vars, view
  <2> QED  BY <2>1, StillOrder
<1> QED  BY <1>1, <1>2, <1>3, <1>4, <1>5, <1>6, <1>7, <1>8, <1>9, <1>10 DEF Next

\* Every step but the handling of a row leaves the store alone or empties it.
LEMMA StoreStays ==
    ASSUME [Next]_vars, ~HandleRow
    PROVE  messages_store' \in {messages_store, << >>}
<1>1. CASE Statement \/ ServerAnswers \/ QueryFails \/ ConnectionLost \/ Reconnects
  BY <1>1 DEF Statement, ServerAnswers, QueryFails, Answer, ConnectionLost, Reconnects, view
<1>2. CASE ControllerReads \/ PollFires \/ PopQueue \/ StartReply \/ EndReply
  BY <1>2 DEF ControllerReads, PollFires, PopQueue, StartReply, EndReply, view
<1>3. CASE Deselect \/ LogOut \/ (\E c \in 1..chats : SelectChat(c))
  BY <1>3 DEF Deselect, LogOut, SelectChat
<1>4. CASE UNCHANGED vars
  BY <1>4 DEF vars, view
<1> QED  BY <1>1, <1>2, <1>3, <1>4 DEF Next

\* The other two parts of the invariant.
LEMMA MirrorStep == MirrorInv /\ [Next]_vars => MirrorInv'
BY OtherSteps, HandleRowMirrors, MirrorsInv

LEMMA DistinctStep ==
    ASSUME MirrorInv, StoreDistinct, [Next]_vars
    PROVE  StoreDistinct'
<1>1. CASE HandleRow
  <2>1. Mirrors(message_list', messages_store')
    BY <1>1, HandleRowMirrors
  <2>2. /\ \A i, j \in DOMAIN message_list' : message_list'[i] = message_list'[j] => i = j
        /\ DOMAIN message_list' = DOMAIN messages_store'
        /\ \A i \in DOMAIN messages_store' : messages_store'[i].id = message_list'[i]
    BY <2>1 DEF Mirrors, Ids
  <2> QED  BY <2>2 DEF StoreDistinct
<1>2. CASE ~HandleRow
  <2>1. messages_store' \in {messages_store, << >>}
    BY <1>2, StoreStays
  <2>2. DOMAIN << >> = {}
    OBVIOUS
  <2> QED  BY <2>1, <2>2 DEF StoreDistinct
<1> QED  BY <1>1, <1>2

LEMMA InitOrder == Init => OrderInv
<1> SUFFICES ASSUME Init PROVE OrderInv
  OBVIOUS
<1>1. /\ messages = << >> /\ wire = << >> /\ buffer = << >> /\ data_queue = << >>
      /\ idle = << >> /\ rows = << >> /\ message_list = << >> /\ messages_store = << >>
  BY DEF Init
<1>2. DOMAIN << >> = {}
  OBVIOUS
<1>3. FlightTypeOK
  <2>1. DatabaseTypeOK
    <3>1. NChats \in Nat /\ users \in Seq(UserRow) /\ chats = NChats
      BY ViewAssumption DEF Init
    <3>2. members = {<<c, 1>> : c \in 1..NChats} \cup {<<c, c + 1>> : c \in 1..NChats}
      BY DEF Init
    <3>3. \A c \in 1..NChats : 1 \in Nat /\ c + 1 \in Nat
      BY <3>1
    <3>4. members \subseteq (1..chats) \X Nat
      BY <3>1, <3>2, <3>3
    <3> QED  BY <1>1, <3>1, <3>4 DEF DatabaseTypeOK
  <2> QED  BY <1>1, <2>1 DEF FlightTypeOK, String
<1>4. MirrorInv
  BY <1>1, EmptyMirrors DEF MirrorInv, StoreMirrorsList, Mirrors
<1>5. \A k \in Levels, n \in Nat, row \in OutRow : ~At(k, n, row)
  BY <1>1, <1>2 DEF At, HasRow, MessageIds
<1>6. InOrder /\ RowsExist
  BY <1>5 DEF InOrder, RowsExist
<1>7. StoreDistinct /\ StoreInOrder
  BY <1>1, <1>2 DEF StoreDistinct, StoreInOrder
<1> QED  BY <1>3, <1>4, <1>6, <1>7 DEF OrderInv

LEMMA OrderInvariant == Spec => []OrderInv
<1>1. OrderInv /\ [Next]_vars => OrderInv'
  BY StepOrder, MirrorStep, DistinctStep DEF OrderInv
<1> QED  BY <1>1, InitOrder, PTL DEF Spec

\* No step takes back what it has shown.
KeepsShown ==
    \A i \in DOMAIN messages_store, j \in DOMAIN messages_store' :
       LET old == messages_store[i]
           new == messages_store'[j]
       IN  old.id = new.id =>
              /\ old.text = DeletedText => new.text = DeletedText
              /\ old.edited => new.edited \/ new.text = DeletedText

\* The row at hand is no older than what is shown of its message.
LEMMA ShownKept ==
    ASSUME OrderInv, [Next]_vars
    PROVE  KeepsShown
<1> SUFFICES ASSUME NEW i \in DOMAIN messages_store, NEW j \in DOMAIN messages_store',
                    messages_store[i].id = messages_store'[j].id
             PROVE  /\ messages_store[i].text = DeletedText
                          => messages_store'[j].text = DeletedText
                    /\ messages_store[i].edited
                          => messages_store'[j].edited \/ messages_store'[j].text = DeletedText
  BY DEF KeepsShown
<1>1. ASSUME NEW h \in DOMAIN messages_store, messages_store'[j] = messages_store[h]
      PROVE  messages_store'[j] = messages_store[i]
  BY <1>1 DEF OrderInv, StoreDistinct
<1>2. CASE HandleRow /\ messages_store'[j] = Shown(Head(rows))
  <2>1. At(0, 0, Head(rows)) /\ Head(rows) \in OutRow /\ 0 \in Levels /\ 0 \in Nat
    BY <1>2, RowAtHand DEF Levels
  <2>2. ShownNotNewer(messages_store[i], Head(rows))
    BY <2>1 DEF OrderInv, StoreInOrder
  <2>3. /\ Shown(Head(rows)).id = Head(rows).id
        /\ Head(rows).row.deleted => Shown(Head(rows)).text = DeletedText
        /\ Head(rows).row.updated => \/ Shown(Head(rows)).edited
                                     \/ Shown(Head(rows)).text = DeletedText
    BY DEF Shown
  <2> QED  BY <1>2, <2>2, <2>3 DEF ShownNotNewer
<1>3. CASE HandleRow /\ messages_store'[j] # Shown(Head(rows))
  <2>1. \E h \in DOMAIN messages_store : messages_store'[j] = messages_store[h]
    BY <1>3, RowsHandled DEF OrderInv
  <2> QED  BY <1>1, <2>1
<1>4. CASE ~HandleRow
  <2>1. messages_store' \in {messages_store, << >>}
    BY <1>4, StoreStays
  <2>2. DOMAIN << >> = {}
    OBVIOUS
  <2> QED  BY <1>1, <2>1, <2>2
<1> QED  BY <1>2, <1>3, <1>4

\* ViewNeverGoesBack holds of every execution: a message shown as deleted stays so and
\* an edited one stays edited, whatever replies are late, lost or cut.
THEOREM ViewGoesForward == Spec => ViewNeverGoesBack
<1>1. OrderInv /\ [Next]_vars => [KeepsShown]_vars
  BY ShownKept
<1>2. ViewNeverGoesBack <=> [][KeepsShown]_vars
  BY DEF ViewNeverGoesBack, KeepsShown
<1> QED  BY <1>1, <1>2, OrderInvariant, PTL DEF Spec

----------------------------------------------------------------------------
(* The types *)

\* What FlightTypeOK leaves out of TypeOK.
ViewTypeOK ==
    /\ timer \in Nat /\ is_clear \in BOOLEAN /\ first_load \in BOOLEAN
    /\ message_list \in Seq(Nat) /\ messages_store \in Seq(ShownRow)
    /\ requests \in Seq(Nat)
    /\ handling \in BOOLEAN /\ connected \in BOOLEAN /\ faults \in Nat
    /\ settled \in BOOLEAN

\* What the loop leaves in the list and the store.
LEMMA HandledTypes ==
    ASSUME OrderInv, ViewTypeOK, HandleRow
    PROVE  message_list' \in Seq(Nat) /\ messages_store' \in Seq(ShownRow)
<1> DEFINE row == Head(rows)
           list == Kept.list
           store == Kept.store
<1>1. row \in OutRow
  BY RowAtHand
<1>2. Shown(row) \in ShownRow /\ row.id \in Nat
  BY <1>1 DEF Shown, OutRow, MessageRow, ShownRow
<1>3. list \in Seq(Nat) /\ store \in Seq(ShownRow)
  <2>1. << >> \in Seq(Nat) /\ << >> \in Seq(ShownRow)
    OBVIOUS
  <2>2. CASE is_clear
    BY <2>1, <2>2 DEF Kept
  <2>3. CASE ~is_clear
    BY <2>3 DEF Kept, ViewTypeOK
  <2> QED  BY <2>2, <2>3
<1>4. /\ message_list' \in {list, Append(list, row.id)}
      /\ messages_store' \in {store, Append(store, Shown(row)), UpdateModel(store, row)}
  BY DEF HandleRow
<1>5. UpdateModel(store, row) \in Seq(ShownRow)
  <2>1. /\ Len(store) \in Nat /\ DOMAIN store = 1..Len(store)
        /\ \A i \in DOMAIN store : store[i] \in ShownRow
    BY <1>3
  <2>2. UpdateModel(store, row) \in [1..Len(store) -> ShownRow]
    BY <1>2, <2>1 DEF UpdateModel
  <2> QED  BY <2>1, <2>2
<1> HIDE DEF row, list, store
<1>6. Append(list, row.id) \in Seq(Nat) /\ Append(store, Shown(row)) \in Seq(ShownRow)
  BY <1>2, <1>3
<1> QED  BY <1>3, <1>4, <1>5, <1>6

LEMMA ViewTypeStep ==
    ASSUME OrderInv, ViewTypeOK, [Next]_vars
    PROVE  ViewTypeOK'
<1> USE DEF ViewTypeOK
<1>1. << >> \in Seq(Nat) /\ << >> \in Seq(ShownRow)
  OBVIOUS
<1>2. CASE Statement \/ ControllerReads \/ PopQueue \/ UNCHANGED vars
  BY <1>2 DEF Statement, ControllerReads, PopQueue, vars, view
<1>3. CASE ServerAnswers \/ QueryFails
  <2>1. requests # << >> /\ requests' = Tail(requests)
    BY <1>3 DEF ServerAnswers, QueryFails, Answer
  <2>2. requests' \in Seq(Nat)
    BY <2>1, TailElements
  <2> QED  BY <1>3, <2>2 DEF ServerAnswers, QueryFails, Answer, view
<1>4. CASE ConnectionLost
  <2>1. requests' \in Seq(Nat)
    BY <1>1, <1>4 DEF ConnectionLost
  <2>2. connected' \in BOOLEAN
    BY <1>4 DEF ConnectionLost
  <2>3. faults' = faults + 1 /\ faults \in Nat
    BY <1>4 DEF ConnectionLost
  <2>4. UNCHANGED <<view, handling>>
    BY <1>4 DEF ConnectionLost
  <2> QED  BY <2>1, <2>2, <2>3, <2>4 DEF view
<1>11. CASE Reconnects
  <2>1. connected' \in BOOLEAN
    BY <1>11 DEF Reconnects
  <2> QED  BY <1>11, <2>1 DEF Reconnects, view
<1>5. CASE PollFires
  BY <1>5 DEF PollFires, view
<1>6. CASE Deselect \/ LogOut
  <2>1. messages_store' \in Seq(ShownRow) /\ message_list' \in Seq(Nat)
    BY <1>1, <1>6 DEF Deselect, LogOut
  <2>2. timer' \in Nat
    BY <1>6 DEF Deselect, LogOut
  <2>3. is_clear' \in BOOLEAN /\ first_load' \in BOOLEAN /\ settled' \in BOOLEAN
    <3>1. CASE Deselect
      BY <3>1 DEF Deselect
    <3>2. CASE LogOut /\ timer = 0
      BY <3>2 DEF LogOut
    <3>3. CASE LogOut /\ timer # 0
      BY <3>3 DEF LogOut
    <3> QED  BY <1>6, <3>1, <3>2, <3>3
  <2>4. UNCHANGED <<requests, handling, connected, faults>>
    BY <1>6 DEF Deselect, LogOut
  <2> QED  BY <2>1, <2>2, <2>3, <2>4
<1>7. ASSUME NEW c \in 1..chats, SelectChat(c) PROVE ViewTypeOK'
  <2>1. timer' \in Nat
    BY <1>7 DEF SelectChat, OrderInv, FlightTypeOK, DatabaseTypeOK
  <2>2. messages_store' \in Seq(ShownRow)
    BY <1>1, <1>7 DEF SelectChat
  <2>3. is_clear' \in BOOLEAN /\ first_load' \in BOOLEAN
    BY <1>7 DEF SelectChat
  <2>4. settled' \in BOOLEAN
    BY <1>7 DEF SelectChat, NothingOnItsWay
  <2>5. UNCHANGED <<message_list, requests, handling, connected, faults>>
    BY <1>7 DEF SelectChat
  <2> QED  BY <2>1, <2>2, <2>3, <2>4, <2>5
<1>8. CASE StartReply
  <2>1. handling' \in BOOLEAN
    BY <1>8 DEF StartReply
  <2> QED  BY <1>8, <2>1 DEF StartReply, view
<1>9. CASE HandleRow
  BY <1>9, HandledTypes DEF HandleRow
<1>10. CASE EndReply
  BY <1>10 DEF EndReply
<1> QED  BY <1>2, <1>3, <1>4, <1>5, <1>6, <1>7, <1>8, <1>9, <1>10, <1>11 DEF Next

LEMMA InitViewTypes == Init => ViewTypeOK
<1> SUFFICES ASSUME Init PROVE ViewTypeOK
  OBVIOUS
<1>1. << >> \in Seq(Nat) /\ << >> \in Seq(ShownRow)
  OBVIOUS
<1>2. /\ timer \in Nat /\ faults \in Nat
      /\ message_list \in Seq(Nat) /\ messages_store \in Seq(ShownRow) /\ requests \in Seq(Nat)
  BY <1>1 DEF Init
<1>3. /\ is_clear \in BOOLEAN /\ first_load \in BOOLEAN
      /\ handling \in BOOLEAN /\ connected \in BOOLEAN /\ settled \in BOOLEAN
  BY DEF Init
<1> QED  BY <1>2, <1>3 DEF ViewTypeOK

\* TypeOK is an invariant: among it, no text that reaches data_queue or a callback is
\* empty, and the rows shown are rows of messages.
THEOREM ViewTypes == Spec => []TypeOK
<1>1. OrderInv /\ ViewTypeOK /\ [Next]_vars => ViewTypeOK'
  BY ViewTypeStep
<1>2. OrderInv /\ ViewTypeOK => TypeOK
  BY DEF OrderInv, FlightTypeOK, ViewTypeOK, TypeOK
<1> QED  BY <1>1, <1>2, InitViewTypes, OrderInvariant, PTL DEF Spec

----------------------------------------------------------------------------
(* What is shown is so *)

\* A statement brings no row on its way, ...
LEMMA StatementBrings ==
    ASSUME Statement
    PROVE  NoneNew
<1>1. UNCHANGED <<transport, idle, rows>>
  BY DEF Statement
<1> SUFFICES ASSUME NEW row \in OutRow, NEW k \in 0..4, NEW n \in Nat, At(k, n, row)'
             PROVE  At(k, n, row)
  BY DEF NoneNew, OnItsWay
<1> QED  BY <1>1 DEF At, HasRow, transport

\* ... and an answer just its own.
LEMMA AnswerBrings ==
    ASSUME OrderInv, NEW reply \in String, Answer(reply), NEW row \in OutRow, OnItsWay(row)'
    PROVE  OnItsWay(row) \/ HasRow(reply, row)
<1>1. /\ Len(wire) \in Nat
      /\ \A i \in DOMAIN wire' :
            \/ i \in 1..Len(wire) /\ i \in DOMAIN wire /\ wire'[i] = wire[i]
            \/ i \in Nat /\ i > Len(wire) /\ wire'[i].string = reply
  BY Written DEF OrderInv, FlightTypeOK, Answer
<1>2. UNCHANGED <<buffer, data_queue, idle, rows>>
  BY DEF Answer
<1>3. PICK k \in 0..4, n \in Nat : At(k, n, row)'
  BY DEF OnItsWay
<1>4. CASE k = 4
  <2>1. n \in DOMAIN wire' /\ HasRow(wire'[n].string, row)
    BY <1>3, <1>4 DEF At, HasRow
  <2>2. CASE n \in DOMAIN wire /\ wire'[n] = wire[n]
    BY <1>4, <2>1, <2>2 DEF At, OnItsWay
  <2>3. CASE wire'[n].string = reply
    BY <2>1, <2>3
  <2> QED  BY <1>1, <2>1, <2>2, <2>3
<1>5. CASE k # 4
  <2>1. At(k, n, row)
    BY <1>2, <1>3, <1>5 DEF At, HasRow
  <2> QED  BY <2>1 DEF OnItsWay
<1> QED  BY <1>4, <1>5

\* Rows come from the table by a reply to the poll that is answered, and else from
\* where they were before.
LEMMA RowsFollow ==
    ASSUME OrderInv, [Next]_vars, NEW row \in OutRow, OnItsWay(row)'
    PROVE  \/ OnItsWay(row)
           \/ ServerAnswers /\ HasRow(ChatRows(Head(requests)), row)
<1> SUFFICES NoneNew \/ ServerAnswers \/ QueryFails
  <2>1. CASE NoneNew
    BY <2>1 DEF NoneNew
  <2>2. CASE ServerAnswers
    <3>1. DatabaseTypeOK /\ Answer(ChatRows(Head(requests)))
      BY <2>2 DEF ServerAnswers, OrderInv, FlightTypeOK
    <3> QED  BY <2>2, <3>1, ReplyRows, AnswerBrings
  <2>3. CASE QueryFails
    <3>1. << >> \in String /\ ~HasRow(<< >>, row) /\ Answer(<< >>)
      <4>1. DOMAIN << >> = {}
        OBVIOUS
      <4> QED  BY <2>3, <4>1 DEF String, HasRow, QueryFails
    <3> QED  BY <3>1, AnswerBrings
  <2> QED  BY <2>1, <2>2, <2>3
<1>1. CASE Statement
  BY <1>1, StatementBrings
<1>2. CASE ConnectionLost \/ Reconnects
  BY <1>2, LostOrder
<1>3. CASE ControllerReads
  BY <1>3, ControllerOrder
<1>4. CASE PopQueue
  BY <1>4, PopOrder
<1>5. CASE StartReply
  BY <1>5, StartOrder
<1>6. CASE HandleRow
  BY <1>6, HandleOrder
<1>7. CASE PollFires \/ Deselect \/ LogOut \/ (\E c \in 1..chats : SelectChat(c))
  <2>1. /\ UNCHANGED <<tables, transport, idle, rows>>
        /\ messages_store' \in {messages_store, << >>}
    BY <1>7 DEF PollFires, Deselect, LogOut, SelectChat, view
  <2> QED  BY <2>1, StillOrder
<1>8. CASE EndReply \/ UNCHANGED vars
  <2>1. UNCHANGED <<tables, transport, idle, rows, messages_store>>
    BY <1>8 DEF EndReply, vars, view
  <2> QED  BY <2>1, StillOrder
<1> QED  BY <1>1, <1>2, <1>3, <1>4, <1>5, <1>6, <1>7, <1>8 DEF Next

\* A row on its way is of its message's chat, and has its text if that was never edited.
RowsTrue ==
    \A row \in OutRow : OnItsWay(row) =>
        /\ row.row.chat_id = messages[row.id].chat_id
        /\ messages[row.id].updated \/ row.row.body = messages[row.id].body

\* And so has what is shown.
StoreTrue ==
    \A i \in DOMAIN messages_store :
        LET shown == messages_store[i] IN
        \/ messages[shown.id].updated
        \/ shown.text \in {messages[shown.id].body, DeletedText}

\* The table only moves on.
LEMMA TableMoves ==
    ASSUME OrderInv, [Next]_vars, NEW m \in MessageIds
    PROVE  /\ m \in MessageIds'
           /\ messages'[m].chat_id = messages[m].chat_id
           /\ messages'[m].updated \/ (/\ ~messages[m].updated
                                       /\ messages'[m].body = messages[m].body)
<1>1. CASE Statement
  BY <1>1, StatementKeeps DEF OrderInv, FlightTypeOK
<1>2. CASE ~Statement
  <2>1. messages' = messages
    BY <1>2 DEF Next, vars, tables, ServerAnswers, QueryFails, Answer, ConnectionLost,
         Reconnects, ControllerReads, PollFires, PopQueue, Deselect, LogOut, SelectChat,
         StartReply, HandleRow, EndReply
  <2> QED  BY <2>1 DEF MessageIds
<1> QED  BY <1>1, <1>2

\* A row on its way is of a message of the table.
LEMMA WayExists ==
    ASSUME OrderInv, NEW row \in OutRow, OnItsWay(row)
    PROVE  row.id \in MessageIds
<1>1. PICK k \in 0..4, n \in Nat : At(k, n, row)
  BY DEF OnItsWay
<1>2. k \in Levels
  BY DEF Levels
<1> QED  BY <1>1, <1>2 DEF OrderInv, RowsExist

LEMMA RowsTrueStep ==
    ASSUME OrderInv, RowsTrue, [Next]_vars
    PROVE  RowsTrue'
<1> SUFFICES ASSUME NEW row \in OutRow, OnItsWay(row)'
             PROVE  /\ row.row.chat_id = messages'[row.id].chat_id
                    /\ messages'[row.id].updated \/ row.row.body = messages'[row.id].body
  BY DEF RowsTrue
<1>1. CASE OnItsWay(row)
  <2>1. row.id \in MessageIds
    BY <1>1, WayExists
  <2> QED  BY <1>1, <2>1, TableMoves DEF RowsTrue
<1>2. CASE ServerAnswers /\ HasRow(ChatRows(Head(requests)), row)
  <2>1. DatabaseTypeOK /\ messages' = messages
    BY <1>2 DEF ServerAnswers, Answer, OrderInv, FlightTypeOK, tables
  <2>2. PICK m \in MessageIds : row = MessageOut(m)
    BY <1>2, <2>1, ReplyRows
  <2>3. row.id = m /\ row.row = messages[m]
    BY <2>1, <2>2, RowsOut
  <2> QED  BY <2>1, <2>3
<1> QED  BY <1>1, <1>2, RowsFollow

LEMMA StoreTrueStep ==
    ASSUME OrderInv, RowsTrue, StoreTrue, [Next]_vars
    PROVE  StoreTrue'
<1> SUFFICES ASSUME NEW i \in DOMAIN messages_store'
             PROVE  LET shown == messages_store'[i] IN
                    \/ messages'[shown.id].updated
                    \/ shown.text \in {messages'[shown.id].body, DeletedText}
  BY DEF StoreTrue, DeletedText
<1>1. ASSUME NEW j \in DOMAIN messages_store, messages_store'[i] = messages_store[j]
      PROVE  LET shown == messages_store'[i] IN
             \/ messages'[shown.id].updated
             \/ shown.text \in {messages'[shown.id].body, DeletedText}
  <2>1. messages_store[j].id \in MessageIds
    BY DEF OrderInv, StoreInOrder
  <2> QED  BY <1>1, <2>1, TableMoves DEF StoreTrue
<1>2. CASE HandleRow /\ messages_store'[i] = Shown(Head(rows))
  <2>1. At(0, 0, Head(rows)) /\ Head(rows) \in OutRow
    BY <1>2, RowAtHand
  <2>2. OnItsWay(Head(rows))
    BY <2>1 DEF OnItsWay
  <2>3. messages' = messages
    BY <1>2 DEF HandleRow, tables
  <2> QED  BY <1>2, <2>1, <2>2, <2>3 DEF RowsTrue, Shown
<1>3. CASE ~HandleRow
  <2>1. messages_store' \in {messages_store, << >>}
    BY <1>3, StoreStays
  <2>2. DOMAIN << >> = {}
    OBVIOUS
  <2> QED  BY <1>1, <2>1, <2>2
<1> QED  BY <1>1, <1>2, <1>3, RowsHandled DEF OrderInv

\* What is shown of a message is no newer than its row in the table.
LEMMA StoreNotAhead ==
    ASSUME OrderInv, StoreTrue
    PROVE  ShownIsTrue
<1> SUFFICES ASSUME NEW i \in DOMAIN messages_store
             PROVE  LET shown == messages_store[i] IN
                    /\ shown.id \in MessageIds
                    /\ shown.text = DeletedText => messages[shown.id].deleted
                    /\ shown.edited => messages[shown.id].updated
                    /\ ~messages[shown.id].updated =>
                          shown.text \in {messages[shown.id].body, DeletedText}
  BY DEF ShownIsTrue
<1> DEFINE m == messages_store[i].id
<1>1. m \in MessageIds
  BY DEF OrderInv, StoreInOrder
<1>2. MessageOut(m) \in OutRow /\ MessageOut(m).id = m /\ MessageOut(m).row = messages[m]
  BY <1>1, RowsOut DEF OrderInv, FlightTypeOK
<1>3. At(5, 0, MessageOut(m)) /\ 5 \in Levels /\ 0 \in Nat
  BY <1>1 DEF At, Levels
<1>4. ShownNotNewer(messages_store[i], MessageOut(m))
  BY <1>2, <1>3 DEF OrderInv, StoreInOrder
<1> QED  BY <1>1, <1>2, <1>4 DEF ShownNotNewer, StoreTrue

TruthInv == OrderInv /\ RowsTrue /\ StoreTrue

LEMMA TruthInvariant == Spec => []TruthInv
<1>1. Init => RowsTrue /\ StoreTrue
  <2> SUFFICES ASSUME Init PROVE RowsTrue /\ StoreTrue
    OBVIOUS
  <2>1. /\ wire = << >> /\ buffer = << >> /\ data_queue = << >> /\ idle = << >>
        /\ rows = << >> /\ messages_store = << >>
    BY DEF Init
  <2>2. DOMAIN << >> = {}
    OBVIOUS
  <2>3. \A row : ~OnItsWay(row)
    BY <2>1, <2>2 DEF OnItsWay, At, HasRow
  <2> QED  BY <2>1, <2>2, <2>3 DEF RowsTrue, StoreTrue
<1>2. OrderInv /\ RowsTrue /\ StoreTrue /\ [Next]_vars => RowsTrue' /\ StoreTrue'
  BY RowsTrueStep, StoreTrueStep
<1> QED  BY <1>1, <1>2, OrderInvariant, PTL DEF Spec, TruthInv

\* ShownIsTrue is an invariant: nothing is shown as deleted or edited that is not, and
\* no text that its message never had, whatever replies are late, lost, joined or cut.
THEOREM ViewTellsTheTruth == Spec => []ShownIsTrue
<1>1. TruthInv => ShownIsTrue
  BY StoreNotAhead DEF TruthInv
<1> QED  BY <1>1, TruthInvariant, PTL
----------------------------------------------------------------------------
(* One chat only *)

\* What is on its way, and what is shown, is of the selected chat, if nothing was on its
\* way when it was selected; between two replies no row is left of the one before.
OneChat ==
    /\ \A i \in DOMAIN requests : requests[i] = timer
    /\ \A row \in OutRow : OnItsWay(row) => row.row.chat_id = timer
    /\ \A i \in DOMAIN messages_store :
          /\ messages_store[i].id \in MessageIds
          /\ messages[messages_store[i].id].chat_id = timer

ChatInv == (~handling => rows = << >>) /\ (settled => OneChat)

\* The selection of a chat when nothing is on its way.
LEMMA SelectsOneChat ==
    ASSUME ChatInv, NEW c, SelectChat(c), NothingOnItsWay
    PROVE  OneChat'
<1>1. /\ requests' = << >> /\ wire' = << >> /\ buffer' = << >> /\ data_queue' = << >>
      /\ idle' = << >> /\ rows' = << >> /\ messages_store' = << >>
  BY DEF SelectChat, NothingOnItsWay, transport, Rests, ChatInv
<1>2. DOMAIN << >> = {}
  OBVIOUS
<1>3. \A row : ~OnItsWay(row)'
  BY <1>1, <1>2 DEF OnItsWay, At, HasRow
<1> QED  BY <1>1, <1>2, <1>3 DEF OneChat

\* The requests a step leaves.
LEMMA RequestsFollow ==
    ASSUME ViewTypeOK, [Next]_vars
    PROVE  \A i \in DOMAIN requests' :
              \/ requests'[i] = timer
              \/ \E j \in DOMAIN requests : requests'[i] = requests[j]
<1>1. CASE ServerAnswers \/ QueryFails
  <2>1. requests # << >> /\ requests' = Tail(requests)
    BY <1>1 DEF ServerAnswers, QueryFails, Answer
  <2> QED  BY <2>1, TailElements DEF ViewTypeOK
<1>2. CASE ConnectionLost
  <2>1. DOMAIN << >> = {}
    OBVIOUS
  <2> QED  BY <1>2, <2>1 DEF ConnectionLost
<1>3. CASE PollFires
  <2>1. requests' = Append(requests, timer)
    BY <1>3 DEF PollFires
  <2> QED  BY <2>1, AppendElements DEF ViewTypeOK
<1>4. CASE ~(ServerAnswers \/ QueryFails \/ ConnectionLost \/ PollFires)
  <2>1. requests' = requests
    BY <1>4 DEF Next, vars, Statement, Reconnects, ControllerReads, PopQueue, Deselect,
         LogOut, SelectChat, StartReply, HandleRow, EndReply
  <2> QED  BY <2>1
<1> QED  BY <1>1, <1>2, <1>3, <1>4

\* Every other step keeps to the chat.
LEMMA OneChatStep ==
    ASSUME TruthInv, ViewTypeOK, OneChat, [Next]_vars, timer' = timer
    PROVE  OneChat'
<1>1. \A i \in DOMAIN requests' : requests'[i] = timer
  BY RequestsFollow DEF OneChat
<1>2. ASSUME NEW row \in OutRow, OnItsWay(row)'
      PROVE  row.row.chat_id = timer
  <2>1. CASE OnItsWay(row)
    BY <2>1 DEF OneChat
  <2>2. CASE ServerAnswers /\ HasRow(ChatRows(Head(requests)), row)
    <3>1. DatabaseTypeOK /\ requests # << >>
      BY <2>2 DEF ServerAnswers, TruthInv, OrderInv, FlightTypeOK
    <3>2. Head(requests) = requests[1] /\ 1 \in DOMAIN requests
      BY <3>1, TailElements DEF ViewTypeOK
    <3>3. Head(requests) = timer
      BY <3>2 DEF OneChat
    <3>4. PICK m \in ChatMessages(timer) : row = MessageOut(m)
      BY <2>2, <3>1, <3>3, ReplyRows
    <3>5. m \in MessageIds /\ messages[m].chat_id = timer
      BY <3>4 DEF ChatMessages
    <3> QED  BY <3>1, <3>4, <3>5, RowsOut
  <2> QED  BY <1>2, <2>1, <2>2, RowsFollow DEF TruthInv
<1>3. ASSUME NEW i \in DOMAIN messages_store'
      PROVE  /\ messages_store'[i].id \in MessageIds'
             /\ messages'[messages_store'[i].id].chat_id = timer
  <2>1. ASSUME NEW j \in DOMAIN messages_store, messages_store'[i] = messages_store[j]
        PROVE  /\ messages_store'[i].id \in MessageIds'
               /\ messages'[messages_store'[i].id].chat_id = timer
    <3>1. /\ messages_store[j].id \in MessageIds
          /\ messages[messages_store[j].id].chat_id = timer
      BY DEF OneChat
    <3> QED  BY <2>1, <3>1, TableMoves DEF TruthInv
  <2>2. CASE HandleRow /\ messages_store'[i] = Shown(Head(rows))
    <3>1. At(0, 0, Head(rows)) /\ Head(rows) \in OutRow /\ Head(rows).id \in MessageIds
      BY <2>2, RowAtHand DEF TruthInv
    <3>2. OnItsWay(Head(rows))
      BY <3>1 DEF OnItsWay
    <3>3. messages[Head(rows).id].chat_id = timer
      BY <3>1, <3>2 DEF TruthInv, RowsTrue, OneChat
    <3>4. UNCHANGED <<messages, MessageIds>>
      BY <2>2 DEF HandleRow, tables, MessageIds
    <3> QED  BY <2>2, <3>1, <3>3, <3>4 DEF Shown
  <2>3. CASE ~HandleRow
    <3>1. messages_store' \in {messages_store, << >>}
      BY <2>3, StoreStays
    <3>2. DOMAIN << >> = {}
      OBVIOUS
    <3> QED  BY <2>1, <3>1, <3>2
  <2> QED  BY <2>1, <2>2, <2>3, RowsHandled DEF TruthInv, OrderInv
<1> QED  BY <1>1, <1>2, <1>3, timer' = timer DEF OneChat

LEMMA ChatStep ==
    ASSUME TruthInv, ViewTypeOK, ChatInv, [Next]_vars
    PROVE  ChatInv'
<1>1. ~handling' => rows' = << >>
  <2>1. CASE StartReply
    BY <2>1 DEF StartReply
  <2>2. CASE EndReply
    BY <2>2 DEF EndReply
  <2>3. CASE HandleRow
    BY <2>3 DEF HandleRow
  <2>4. CASE ~(StartReply \/ EndReply \/ HandleRow)
    <3>1. UNCHANGED <<handling, rows>>
      BY <2>4 DEF Next, vars, Statement, ServerAnswers, QueryFails, Answer, ConnectionLost,
           Reconnects, ControllerReads, PollFires, PopQueue, Deselect, LogOut, SelectChat
    <3> QED  BY <3>1 DEF ChatInv
  <2> QED  BY <2>1, <2>2, <2>3, <2>4
<1>2. settled' => OneChat'
  <2>1. CASE Deselect \/ LogOut
    BY <2>1 DEF Deselect, LogOut
  <2>2. ASSUME NEW c, SelectChat(c), settled' PROVE OneChat'
    BY <2>2, SelectsOneChat DEF SelectChat
  <2>3. CASE ~(Deselect \/ LogOut \/ \E c \in 1..chats : SelectChat(c))
    <3>1. UNCHANGED <<timer, settled>>
      BY <2>3 DEF Next, vars, view, Statement, ServerAnswers, QueryFails, Answer,
           ConnectionLost, Reconnects, ControllerReads, PollFires, PopQueue, StartReply,
           HandleRow, EndReply
    <3> QED  BY <3>1, OneChatStep DEF ChatInv
  <2> QED  BY <2>1, <2>2, <2>3
<1> QED  BY <1>1, <1>2 DEF ChatInv

\* SelectedChatOnly is an invariant: who selects a chat when nothing is on its way sees
\* no message of another one.
THEOREM OneChatShown == Spec => []SelectedChatOnly
<1>1. Init => ChatInv
  BY DEF Init, ChatInv
<1>2. TruthInv /\ ViewTypeOK /\ ChatInv /\ [Next]_vars => ChatInv'
  BY ChatStep
<1>3. TruthInv /\ ViewTypeOK /\ [Next]_vars => ViewTypeOK'
  BY ViewTypeStep DEF TruthInv
<1>4. ChatInv => SelectedChatOnly
  BY DEF ChatInv, OneChat, SelectedChatOnly
<1> QED  BY <1>1, <1>2, <1>3, <1>4, InitViewTypes, TruthInvariant, PTL DEF Spec
=============================================================================
