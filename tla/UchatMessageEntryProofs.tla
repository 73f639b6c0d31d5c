----------------------- MODULE UchatMessageEntryProofs -----------------------
(***************************************************************************)
(* The message entry, for any users, chats, texts, messages and faults:    *)
(* drafts survive edits, edits stay with their message, and careful users  *)
(* change only their own messages and write only in their own chats.       *)
(***************************************************************************)
EXTENDS UchatMessageEntry, SequenceTheorems, TLAPS

----------------------------------------------------------------------------
(* Drafts and edits *)

\* In an edit no row is selected and no menu shown: so no edit begins in another.
EditInv ==
    /\ DraftSurvivesEdits
    /\ EditsAreMeant
    /\ being_edited => selection = 0 /\ ~menu

EditVars == <<entry, selection, selected_message, menu>>

\* Steps that neither touch the entry nor what is chosen.
LEMMA EditUntouched == EditInv /\ UNCHANGED EditVars => EditInv'
BY DEF EditInv, EditVars, entry, DraftSurvivesEdits, EditsAreMeant

\* Choosing a row ends the edit and puts the draft back.
LEMMA RowChosenEdit ==
    ASSUME EditInv, NEW row, RowChosen(row)
    PROVE  EditInv'
BY DEF EditInv, RowChosen, DraftSurvivesEdits, EditsAreMeant

\* So does GTK when the store is emptied, or else it leaves the edit as it is.
LEMMA StoreEmptiedEdit == EditInv /\ StoreEmptied /\ menu' = menu => EditInv'
<1> SUFFICES ASSUME EditInv, StoreEmptied, menu' = menu
             PROVE  EditInv'
  OBVIOUS
<1>1. CASE NoRowChosen
  BY <1>1 DEF EditInv, StoreEmptied, NoRowChosen, entry, DraftSurvivesEdits, EditsAreMeant
<1>2. CASE \E row \in messages_store : RowChosen(row)
  BY <1>2, RowChosenEdit
<1> QED  BY <1>1, <1>2 DEF StoreEmptied

LEMMA EditStep == EditInv /\ [Next]_vars => EditInv'
<1> SUFFICES ASSUME EditInv, [Next]_vars PROVE EditInv'
  OBVIOUS
<1>1. ASSUME NEW u \in Locals, SignIn(u) PROVE EditInv'
  BY <1>1, EditUntouched DEF SignIn, choice, EditVars
<1>2. ASSUME NEW text \in Bodies \cup {Empty}, Type(text) PROVE EditInv'
  BY <1>2 DEF Type, choice, EditInv, DraftSurvivesEdits, EditsAreMeant
<1>3. ASSUME NEW row \in messages_store, Click(row) PROVE EditInv'
  BY <1>3, RowChosenEdit DEF Click
<1>4. ASSUME NEW row \in messages_store, RightClick(row) PROVE EditInv'
  <2>1. CASE row.id = selection
    <3>1. ~menu' \/ selection # 0
      BY <1>4 DEF RightClick
    <3>2. UNCHANGED <<selection, selected_message, entry>>
      BY <1>4, <2>1 DEF RightClick, NoRowChosen
    <3> QED  BY <3>1, <3>2 DEF EditInv, entry, DraftSurvivesEdits, EditsAreMeant
  <2>2. CASE row.id # selection
    BY <1>4, <2>2, RowChosenEdit DEF RightClick
  <2> QED  BY <2>1, <2>2
<1>5. CASE ClickElsewhere
  BY <1>5 DEF ClickElsewhere, entry, EditInv, DraftSurvivesEdits, EditsAreMeant
<1>6. CASE CloseMenu
  BY <1>6 DEF CloseMenu, entry, EditInv, DraftSurvivesEdits, EditsAreMeant
<1>7. CASE edit_messages
  \* The menu is shown, so there was no edit, and the entry held the draft.
  BY <1>7 DEF edit_messages, EditInv, DraftSurvivesEdits, EditsAreMeant
<1>8. CASE delete_messages
  BY <1>8 DEF delete_messages, entry, EditInv, DraftSurvivesEdits, EditsAreMeant
<1>9. CASE SendEdit
  BY <1>9 DEF SendEdit, choice, EditInv, DraftSurvivesEdits, EditsAreMeant
<1>10. CASE SendNew
  BY <1>10 DEF SendNew, choice, EditInv, DraftSurvivesEdits, EditsAreMeant
<1>11. ASSUME NEW c \in chats_store, SelectChat(c) PROVE EditInv'
  BY <1>11, StoreEmptiedEdit DEF SelectChat
<1>12. CASE Deselect
  BY <1>12, EditUntouched DEF Deselect, choice, EditVars
<1>13. CASE LogOut
  BY <1>13, StoreEmptiedEdit DEF LogOut
<1>14. CASE Poll \/ PollChats \/ handle_get_chats_response
  BY <1>14, EditUntouched DEF Poll, PollChats, handle_get_chats_response, choice, EditVars
<1>15. CASE Refresh
  <2>1. CASE StoreEmptied
    BY <1>15, <2>1, StoreEmptiedEdit DEF Refresh, Reads
  <2>2. CASE UNCHANGED <<selection, selected_message, entry>>
    BY <1>15, <2>2, EditUntouched DEF Refresh, EditVars
  <2> QED  BY <1>15, <2>1, <2>2 DEF Refresh
<1>16. CASE AddMessage \/ ModifyMessage \/ DeleteMessage \/ GetMessages \/ GetChats
  BY <1>16, EditUntouched
     DEF AddMessage, ModifyMessage, DeleteMessage, GetMessages, GetChats, Serves, choice,
         EditVars
<1>17. CASE ConnectionLost \/ Others
  BY <1>17, EditUntouched DEF ConnectionLost, Others, choice, EditVars
<1>18. CASE UNCHANGED vars
  BY <1>18, EditUntouched DEF vars, choice, EditVars
<1> QED
  BY <1>1, <1>2, <1>3, <1>4, <1>5, <1>6, <1>7, <1>8, <1>9, <1>10, <1>11, <1>12, <1>13,
     <1>14, <1>15, <1>16, <1>17, <1>18 DEF Next, UserActs

LEMMA EditInvariant == Spec => []EditInv
<1>1. Init => EditInv
  BY DEF Init, EditInv, DraftSurvivesEdits, EditsAreMeant
<1> QED  BY <1>1, EditStep, PTL DEF Spec

\* The text of a new message is lost in no edit, however the edit ends.
THEOREM DraftsKept == Spec => []DraftSurvivesEdits
<1>1. EditInv => DraftSurvivesEdits
  BY DEF EditInv
<1> QED  BY <1>1, EditInvariant, PTL

\* An edit is always one of the message it was chosen for.
THEOREM EditsKeepTheirMessage == Spec => []EditsAreMeant
<1>1. EditInv => EditsAreMeant
  BY DEF EditInv
<1> QED  BY <1>1, EditInvariant, PTL

----------------------------------------------------------------------------
(* Types *)

\* What is in the entry during an edit is typed, or the text that was shown.
EditTextInv ==
    being_edited => message_buffer \in Bodies \cup {Empty, selected_message.text}

TypeInv == TypeOK /\ EditTextInv

\* Part of a sequence, or nothing of it.
Part(new, old) == \A i \in DOMAIN new : \E j \in DOMAIN old : new[i] = old[j]

LEMMA TailPart ==
    ASSUME NEW S, NEW s \in Seq(S), s # << >>
    PROVE  /\ Tail(s) \in Seq(S) /\ Part(Tail(s), s)
           /\ Head(s) \in S /\ \E j \in DOMAIN s : Head(s) = s[j]
<1>1. /\ Len(s) \in Nat \ {0} /\ DOMAIN s = 1..Len(s) /\ Head(s) = s[1]
      /\ Tail(s) \in Seq(S) /\ Len(Tail(s)) = Len(s) - 1
      /\ \A i \in 1..(Len(s) - 1) : Tail(s)[i] = s[i + 1]
  BY EmptySeq, HeadTailProperties
<1>2. DOMAIN Tail(s) = 1..(Len(s) - 1)
  BY <1>1
<1>3. \A i \in 1..(Len(s) - 1) : i + 1 \in 1..Len(s)
  BY <1>1
<1>4. 1 \in DOMAIN s /\ s[1] \in S
  BY <1>1
<1> QED  BY <1>1, <1>2, <1>3, <1>4 DEF Part

LEMMA PrefixPart ==
    ASSUME NEW S, NEW s \in Seq(S), NEW n \in 0..Len(s)
    PROVE  SubSeq(s, 1, n) \in Seq(S) /\ Part(SubSeq(s, 1, n), s)
<1>1. /\ Len(s) \in Nat /\ DOMAIN s = 1..Len(s) /\ \A i \in 1..Len(s) : s[i] \in S
  OBVIOUS
<1>2. n \in Nat /\ \A i \in 1..n : i \in 1..Len(s)
  BY <1>1
<1>3. SubSeq(s, 1, n) = [i \in 1..n |-> s[i]]
  BY <1>1, <1>2
<1>4. [i \in 1..n |-> s[i]] \in Seq(S)
  BY <1>1, <1>2
<1>5. DOMAIN [i \in 1..n |-> s[i]] = 1..n
  OBVIOUS
<1> QED  BY <1>1, <1>2, <1>3, <1>4, <1>5 DEF Part

LEMMA EmptyPart == \A s : Part(<< >>, s)
<1>1. DOMAIN << >> = {}
  OBVIOUS
<1> QED  BY <1>1 DEF Part

LEMMA SamePart == \A s : Part(s, s)
BY DEF Part

LEMMA AppendElements ==
    ASSUME NEW S, NEW s \in Seq(S), NEW x \in S
    PROVE  /\ Append(s, x) \in Seq(S)
           /\ \A i \in DOMAIN Append(s, x) :
                 Append(s, x)[i] = x \/ \E j \in DOMAIN s : Append(s, x)[i] = s[j]
<1>1. /\ Append(s, x) \in Seq(S) /\ Len(s) \in Nat /\ DOMAIN s = 1..Len(s)
      /\ Len(Append(s, x)) = Len(s) + 1
      /\ \A i \in 1..Len(s) : Append(s, x)[i] = s[i]
      /\ Append(s, x)[Len(s) + 1] = x
  OBVIOUS
<1>2. DOMAIN Append(s, x) = 1..(Len(s) + 1)
  BY <1>1
<1>3. \A i \in 1..(Len(s) + 1) : i \in 1..Len(s) \/ i = Len(s) + 1
  BY <1>1
<1> QED  BY <1>1, <1>2, <1>3

\* A statement takes nothing back: no user, member, author or chat of a message.
RowsStay ==
    /\ users' = users /\ members' = members /\ chats' = chats
    /\ \A m \in MessageIds :
          /\ m \in MessageIds'
          /\ messages'[m].user_id = messages[m].user_id
          /\ messages'[m].chat_id = messages[m].chat_id

LEMMA Inserted ==
    ASSUME DatabaseTypeOK, NEW id \in Nat, NEW c \in Nat, NEW body \in Bodies,
           InsertMessage(id, c, body)
    PROVE  /\ DatabaseTypeOK' /\ RowsStay
           /\ \A m \in MessageIds' \ MessageIds :
                 messages'[m].user_id = id /\ messages'[m].chat_id = c
<1> DEFINE row == [user_id |-> id, chat_id |-> c, body |-> body,
                   updated |-> FALSE, deleted |-> FALSE]
<1>1. row \in MessageRow /\ messages \in Seq(MessageRow)
  BY DEF MessageRow, DatabaseTypeOK
<1>2. messages' = Append(messages, row) /\ UNCHANGED <<users, chats, members>>
  BY DEF InsertMessage
<1>3. row.user_id = id /\ row.chat_id = c
  OBVIOUS
<1> HIDE DEF row
<1>4. /\ messages' \in Seq(MessageRow) /\ Len(messages) \in Nat
      /\ DOMAIN messages = 1..Len(messages) /\ Len(messages') = Len(messages) + 1
      /\ \A m \in 1..Len(messages) : messages'[m] = messages[m]
      /\ messages'[Len(messages) + 1] = row
  BY <1>1, <1>2
<1>5. DOMAIN messages' = 1..(Len(messages) + 1)
  BY <1>4
<1>6. \A m \in 1..(Len(messages) + 1) : m \in 1..Len(messages) \/ m = Len(messages) + 1
  BY <1>4
<1>7. \A m \in 1..Len(messages) : m \in 1..(Len(messages) + 1)
  BY <1>4
<1> QED  BY <1>2, <1>3, <1>4, <1>5, <1>6, <1>7 DEF DatabaseTypeOK, RowsStay, MessageIds

LEMMA Modified ==
    ASSUME DatabaseTypeOK, NEW n,
           (\E body \in Bodies : UpdateMessage(n, body)) \/ RemoveMessage(n)
    PROVE  DatabaseTypeOK' /\ RowsStay /\ MessageIds' = MessageIds
<1>1. /\ Len(messages) \in Nat /\ DOMAIN messages = 1..Len(messages)
      /\ \A m \in DOMAIN messages : messages[m] \in MessageRow
  BY DEF DatabaseTypeOK
<1>2. UNCHANGED <<users, chats, members>>
  BY DEF UpdateMessage, RemoveMessage
<1>3. /\ DOMAIN messages' = DOMAIN messages
      /\ messages' = [m \in DOMAIN messages |-> messages'[m]]
  BY DEF UpdateMessage, RemoveMessage, MessageIds
<1>4. ASSUME NEW m \in DOMAIN messages
      PROVE  /\ messages'[m] \in MessageRow
             /\ messages'[m].user_id = messages[m].user_id
             /\ messages'[m].chat_id = messages[m].chat_id
  <2>1. messages[m] \in MessageRow
    BY <1>1
  <2>2. \/ messages'[m] = messages[m]
        \/ messages'[m] = [messages[m] EXCEPT !.deleted = TRUE]
        \/ \E body \in Bodies :
              messages'[m] = [messages[m] EXCEPT !.body = body, !.updated = TRUE]
    BY DEF UpdateMessage, RemoveMessage, MessageIds
  <2> QED  BY <2>1, <2>2 DEF MessageRow
<1>5. messages' \in [1..Len(messages) -> MessageRow]
  BY <1>1, <1>3, <1>4
<1>6. messages' \in Seq(MessageRow)
  BY <1>1, <1>5
<1> QED  BY <1>2, <1>3, <1>4, <1>6 DEF DatabaseTypeOK, RowsStay, MessageIds

\* A row as it is shown has the types of one.
LEMMA RowType ==
    ASSUME DatabaseTypeOK, NEW m \in MessageIds
    PROVE  Row(m) \in ShownRow
<1>1. m \in Nat /\ messages[m] \in MessageRow
  BY DEF DatabaseTypeOK, MessageIds
<1>2. \A i \in UserIds : users[i].username \in Usernames
  <2>1. \A i \in DOMAIN users : users[i] \in UserRow
    BY DEF DatabaseTypeOK
  <2> QED  BY <2>1 DEF UserIds, UserRow
<1>3. MessageOut(m).username \in SUBSET Usernames
  <2>1. MessageOut(m).username = database_fetch_username(messages[m].user_id)
    BY DEF MessageOut
  <2>2. \A id : database_fetch_username(id) \subseteq Usernames
    BY <1>2 DEF database_fetch_username
  <2> QED  BY <2>1, <2>2
<1> QED  BY <1>1, <1>3 DEF Row, ShownRow, MessageRow

\* What the steps of the GTK thread leave to the types.
LEMMA RowChosenTypes ==
    ASSUME TypeInv, EditInv, NEW row \in ShownRow, RowChosen(row)
    PROVE  /\ selected_message' \in ShownRow
           /\ being_edited' = FALSE /\ edited' \in Nat /\ draft' = draft
           /\ {message_old', message_buffer'} \subseteq Bodies \cup {DeletedText, Empty}
BY DEF TypeInv, TypeOK, RowChosen, EditInv

LEMMA StoreEmptiedTypes ==
    ASSUME TypeInv, EditInv, StoreEmptied
    PROVE  /\ messages_store' = {} /\ selection' = 0
           /\ selected_message' \in [id : Nat, username : SUBSET Usernames,
                                    text : Bodies \cup {DeletedText, Empty}]
           /\ being_edited' \in BOOLEAN /\ edited' \in Nat /\ draft' \in Bodies \cup {Empty}
           /\ {message_old', message_buffer'} \subseteq Bodies \cup {DeletedText, Empty}
           /\ EditTextInv'
<1>1. CASE NoRowChosen
  BY <1>1 DEF NoRowChosen, entry, StoreEmptied, TypeInv, TypeOK, EditTextInv
<1>2. ASSUME NEW row \in messages_store, RowChosen(row)
      PROVE  /\ selected_message' \in ShownRow
             /\ being_edited' = FALSE /\ edited' \in Nat /\ draft' = draft
             /\ {message_old', message_buffer'} \subseteq Bodies \cup {DeletedText, Empty}
  BY <1>2, RowChosenTypes DEF TypeInv, TypeOK
<1>3. ShownRow \subseteq [id : Nat, username : SUBSET Usernames,
                         text : Bodies \cup {DeletedText, Empty}]
  BY DEF ShownRow
<1> QED  BY <1>1, <1>2, <1>3 DEF StoreEmptied, TypeInv, TypeOK, EditTextInv

\* Steps that leave the GTK thread's variables alone.
LEMMA NetTypes ==
    ASSUME TypeInv, DatabaseTypeOK',
           UNCHANGED <<entry, choice, place, messages_store>>,
           requests' \in Seq(Request), replies' \in Seq(Reply),
           session' \in Nat, faults' \in Nat, careful' \in BOOLEAN
    PROVE  TypeInv'
BY DEF TypeInv, TypeOK, EditTextInv, entry, choice, place

LEMMA SameTables == DatabaseTypeOK /\ UNCHANGED tables => DatabaseTypeOK'
BY DEF DatabaseTypeOK, tables

LEMMA NewConnectionTypes ==
    ASSUME TypeInv, NewConnection
    PROVE  /\ requests' \in Seq(Request) /\ replies' \in Seq(Reply)
           /\ session' \in Nat /\ careful' = FALSE
           /\ Part(requests', requests) /\ Part(replies', replies)
<1>1. requests' = << >> /\ careful' = FALSE /\ session' \in Nat
  BY EntryAssumption DEF NewConnection
<1>2. PICK n \in 0..Len(replies) : replies' = SubSeq(replies, 1, n)
  BY DEF NewConnection
<1>3. replies \in Seq(Reply)
  BY DEF TypeInv, TypeOK
<1>4. << >> \in Seq(Request)
  OBVIOUS
<1> QED  BY <1>1, <1>2, <1>3, <1>4, PrefixPart, EmptyPart

\* The text of an edit that is sent has been typed.
LEMMA SentText ==
    ASSUME TypeInv, being_edited, message_buffer # Empty,
           message_buffer # selected_message.text
    PROVE  message_buffer \in Bodies
BY DEF TypeInv, EditTextInv

LEMMA UserTypes == EditInv /\ TypeInv /\ UserActs => TypeInv'
<1> SUFFICES ASSUME EditInv, TypeInv, UserActs PROVE TypeInv'
  OBVIOUS
<1> USE DEF TypeInv
<1>1. ASSUME NEW u \in Locals, SignIn(u) PROVE TypeInv'
  <2>1. u \in Nat
    BY EntryAssumption
  <2> QED  BY <1>1, <2>1, SameTables DEF SignIn, TypeOK, EditTextInv, entry, choice
<1>2. ASSUME NEW text \in Bodies \cup {Empty}, Type(text) PROVE TypeInv'
  BY <1>2, SameTables DEF Type, TypeOK, EditTextInv, choice, place, net
<1>3. ASSUME NEW row \in messages_store, Click(row) PROVE TypeInv'
  <2>1. row \in ShownRow
    BY DEF TypeOK
  <2>2. row.id \in Nat
    BY <2>1 DEF ShownRow
  <2> QED  BY <1>3, <2>1, <2>2, RowChosenTypes, SameTables
           DEF Click, TypeOK, EditTextInv, place, net, ShownRow
<1>4. ASSUME NEW row \in messages_store, RightClick(row) PROVE TypeInv'
  <2>1. row \in ShownRow
    BY DEF TypeOK
  <2>2. row.id \in Nat
    BY <2>1 DEF ShownRow
  <2>3. menu' \in BOOLEAN /\ careful' \in BOOLEAN
    BY <1>4 DEF RightClick
  <2>4. CASE row.id = selection
    BY <1>4, <2>2, <2>3, <2>4, SameTables
       DEF RightClick, NoRowChosen, TypeOK, EditTextInv, entry, place, net
  <2>5. CASE row.id # selection
    BY <1>4, <2>1, <2>2, <2>3, <2>5, RowChosenTypes, SameTables
       DEF RightClick, TypeOK, EditTextInv, place, net, ShownRow
  <2> QED  BY <2>4, <2>5
<1>5. CASE ClickElsewhere
  BY <1>5, SameTables DEF ClickElsewhere, TypeOK, EditTextInv, entry, place, net
<1>6. CASE CloseMenu
  BY <1>6, SameTables DEF CloseMenu, TypeOK, EditTextInv, entry, place, net
<1>7. CASE edit_messages
  BY <1>7, SameTables DEF edit_messages, TypeOK, EditTextInv, place, net
<1>8. CASE delete_messages
  <2>1. [type |-> "DELETE_MESSAGE", id |-> selected_message.id] \in Request
    BY DEF Request, TypeOK
  <2>2. requests' \in Seq(Request)
    BY <1>8, <2>1 DEF delete_messages, TypeOK
  <2> QED  BY <1>8, <2>2, SameTables DEF delete_messages, TypeOK, EditTextInv, entry, place
<1>9. CASE SendEdit
  <2>1. requests' \in Seq(Request)
    <3>1. CASE message_buffer = selected_message.text
      BY <1>9, <3>1 DEF SendEdit, TypeOK
    <3>2. CASE message_buffer # selected_message.text
      <4>1. [type |-> "UPDATE_MESSAGE", id |-> selected_message.id, body |-> message_buffer]
              \in Request
        BY <1>9, <3>2, SentText DEF SendEdit, Request, TypeOK
      <4> QED  BY <1>9, <3>2, <4>1 DEF SendEdit, TypeOK
    <3> QED  BY <3>1, <3>2
  <2> QED  BY <1>9, <2>1, SameTables DEF SendEdit, TypeOK, EditTextInv, choice, place
<1>10. CASE SendNew
  \* What is in the entry is the draft, which has been typed.
  <2>1. message_buffer \in Bodies
    BY <1>10 DEF SendNew, EditInv, DraftSurvivesEdits, TypeOK
  <2>2. [type |-> "ADD_MESSAGE", chat_id |-> selected_chat, body |-> message_buffer] \in Request
    BY <2>1 DEF Request, TypeOK
  <2>3. requests' \in Seq(Request) /\ careful' \in BOOLEAN
    BY <1>10, <2>2 DEF SendNew, TypeOK
  <2> QED  BY <1>10, <2>3, SameTables DEF SendNew, TypeOK, EditTextInv, choice, place
<1>11. ASSUME NEW c \in chats_store, SelectChat(c) PROVE TypeInv'
  <2>1. c \in Nat
    BY DEF TypeOK
  <2> QED  BY <1>11, <2>1, StoreEmptiedTypes, SameTables DEF SelectChat, TypeOK, net
<1>12. CASE Deselect
  BY <1>12, SameTables DEF Deselect, TypeOK, EditTextInv, entry, choice, net
<1>13. CASE LogOut
  <2>1. selected_chat' \in Nat /\ chats_store' \in SUBSET Nat /\ careful' \in BOOLEAN
    BY <1>13 DEF LogOut, TypeOK
  <2>2. /\ me' = 0 /\ timer' = 0 /\ chosen' = FALSE /\ StoreEmptied
        /\ UNCHANGED <<tables, menu, net>>
    BY <1>13 DEF LogOut
  <2>3. DatabaseTypeOK'
    BY <2>2, SameTables DEF TypeOK
  <2>4. /\ messages_store' \in SUBSET ShownRow /\ selection' \in Nat
        /\ selected_message' \in [id : Nat, username : SUBSET Usernames,
                                 text : Bodies \cup {DeletedText, Empty}]
        /\ being_edited' \in BOOLEAN /\ edited' \in Nat /\ draft' \in Bodies \cup {Empty}
        /\ {message_old', message_buffer'} \subseteq Bodies \cup {DeletedText, Empty}
        /\ EditTextInv'
    BY <2>2, StoreEmptiedTypes
  <2>5. /\ me' \in Nat /\ timer' \in Nat /\ chosen' \in BOOLEAN /\ menu' \in BOOLEAN
        /\ requests' \in Seq(Request) /\ replies' \in Seq(Reply)
        /\ session' \in Nat /\ faults' \in Nat
    BY <2>2 DEF TypeOK, net
  <2> QED  BY <2>1, <2>3, <2>4, <2>5 DEF TypeOK
<1> QED
  BY <1>1, <1>2, <1>3, <1>4, <1>5, <1>6, <1>7, <1>8, <1>9, <1>10, <1>11, <1>12, <1>13
     DEF UserActs

LEMMA ServerTypes ==
    /\ TypeInv
    /\ AddMessage \/ ModifyMessage \/ DeleteMessage \/ GetMessages \/ GetChats
    => TypeInv'
<1> SUFFICES ASSUME TypeInv,
                    AddMessage \/ ModifyMessage \/ DeleteMessage \/ GetMessages \/ GetChats
             PROVE  TypeInv'
  OBVIOUS
<1>1. /\ requests \in Seq(Request) /\ replies \in Seq(Reply)
      /\ session \in Nat /\ faults \in Nat /\ careful \in BOOLEAN /\ DatabaseTypeOK
      /\ requests # << >>
  BY DEF TypeInv, TypeOK, AddMessage, ModifyMessage, DeleteMessage, GetMessages, GetChats,
         Serves
<1>2. Tail(requests) \in Seq(Request) /\ Head(requests) \in Request
  BY <1>1, TailPart
<1>3. UNCHANGED <<entry, choice, place, messages_store>> /\ faults' \in Nat
  BY <1>1 DEF AddMessage, ModifyMessage, DeleteMessage, GetMessages, GetChats, Serves
<1>4. ASSUME Answered, DatabaseTypeOK' PROVE TypeInv'
  BY <1>1, <1>2, <1>3, <1>4, NetTypes DEF Answered
<1>5. ASSUME NewConnection, DatabaseTypeOK' PROVE TypeInv'
  BY <1>3, <1>5, NewConnectionTypes, NetTypes
<1>6. CASE AddMessage
  <2>1. Head(requests).chat_id \in Nat /\ Head(requests).body \in Bodies
    BY <1>2, <1>6 DEF AddMessage, Serves, Request
  <2>2. DatabaseTypeOK'
    BY <1>1, <1>6, <2>1, Inserted DEF AddMessage
  <2> QED  BY <1>4, <1>5, <1>6, <2>2 DEF AddMessage
<1>7. CASE ModifyMessage
  <2>1. Head(requests).body \in Bodies
    BY <1>2, <1>7 DEF ModifyMessage, Serves, Request
  <2>2. DatabaseTypeOK'
    BY <1>1, <1>7, <2>1, Modified DEF ModifyMessage
  <2> QED  BY <1>4, <1>7, <2>2 DEF ModifyMessage
<1>8. CASE DeleteMessage
  <2>1. DatabaseTypeOK'
    BY <1>1, <1>8, Modified DEF DeleteMessage
  <2> QED  BY <1>4, <1>8, <2>1 DEF DeleteMessage
<1>9. CASE GetMessages
  <2> DEFINE shown == ChatMessages(Head(requests).chat_id)
  <2>1. DatabaseTypeOK'
    BY <1>1, <1>9, SameTables DEF GetMessages
  <2>2. {Row(m) : m \in shown} \in SUBSET ShownRow
    BY <1>1, RowType DEF ChatMessages
  <2>3. [type |-> "GET_MESSAGES", rows |-> {Row(m) : m \in shown}] \in Reply
    BY <2>2 DEF Reply
  <2>4. Append(replies, [type |-> "GET_MESSAGES", rows |-> {Row(m) : m \in shown}])
          \in Seq(Reply)
    BY <1>1, <2>3
  <2> QED  BY <1>1, <1>2, <1>3, <1>5, <1>9, <2>1, <2>4, NetTypes DEF GetMessages
<1>10. CASE GetChats
  <2>1. DatabaseTypeOK'
    BY <1>1, <1>10, SameTables DEF GetChats
  <2>2. [type |-> "GET_CHATS", chats |-> UserChats(session)] \in Reply
    BY <1>1 DEF Reply, UserChats, DatabaseTypeOK
  <2>3. Append(replies, [type |-> "GET_CHATS", chats |-> UserChats(session)]) \in Seq(Reply)
    BY <1>1, <2>2
  <2> QED  BY <1>1, <1>2, <1>3, <1>5, <1>10, <2>1, <2>3, NetTypes DEF GetChats
<1> QED  BY <1>6, <1>7, <1>8, <1>9, <1>10

LEMMA TypeStep == EditInv /\ TypeInv /\ [Next]_vars => TypeInv'
<1> SUFFICES ASSUME EditInv, TypeInv, [Next]_vars PROVE TypeInv'
  OBVIOUS
<1>0. /\ requests \in Seq(Request) /\ replies \in Seq(Reply)
      /\ session \in Nat /\ faults \in Nat /\ careful \in BOOLEAN /\ DatabaseTypeOK
      /\ timer \in Nat
  BY DEF TypeInv, TypeOK
<1>1. CASE UserActs
  BY <1>1, UserTypes
<1>2. CASE Poll
  <2>1. requests' \in Seq(Request)
    <3>1. [type |-> "GET_MESSAGES", chat_id |-> timer] \in Request
      BY <1>0 DEF Request
    <3> QED  BY <1>0, <1>2, <3>1 DEF Poll
  <2> QED  BY <1>0, <1>2, <2>1, SameTables, NetTypes DEF Poll
<1>3. CASE Refresh
  <2>1. replies' \in Seq(Reply) /\ Head(replies).rows \in SUBSET ShownRow
    BY <1>0, <1>3, TailPart DEF Refresh, Reads, Reply
  <2>2. DatabaseTypeOK'
    BY <1>0, <1>3, SameTables DEF Refresh
  <2>3. CASE StoreEmptied /\ careful' = (careful /\ ~menu)
    BY <1>3, <2>1, <2>2, <2>3, StoreEmptiedTypes DEF Refresh, place, TypeInv, TypeOK
  <2>4. CASE /\ messages_store' \in SUBSET ShownRow
             /\ UNCHANGED <<selection, selected_message, entry, careful>>
    BY <1>3, <2>1, <2>2, <2>4 DEF Refresh, entry, place, TypeInv, TypeOK, EditTextInv
  <2> QED  BY <1>3, <2>1, <2>3, <2>4 DEF Refresh, TypeInv, TypeOK
<1>4. CASE AddMessage \/ ModifyMessage \/ DeleteMessage \/ GetMessages \/ GetChats
  BY <1>4, ServerTypes
<1>5. CASE ConnectionLost
  BY <1>0, <1>5, NewConnectionTypes, SameTables, NetTypes DEF ConnectionLost
<1>6. CASE Others
  <2>1. DatabaseTypeOK'
    <3>1. ASSUME NEW p \in members, NEW body \in Bodies, InsertMessage(p[2], p[1], body)
          PROVE  DatabaseTypeOK'
      <4>1. p[1] \in Nat /\ p[2] \in Nat
        BY <1>0 DEF DatabaseTypeOK
      <4> QED  BY <1>0, <3>1, <4>1, Inserted
    <3> QED  BY <1>0, <1>6, <3>1, Modified DEF Others
  <2> QED  BY <1>0, <1>6, <2>1, NetTypes DEF Others, net
<1>7. CASE UNCHANGED vars
  BY <1>0, <1>7, SameTables, NetTypes DEF vars, net
<1>8. CASE PollChats
  <2>1. requests' \in Seq(Request)
    <3>1. [type |-> "GET_CHATS"] \in Request
      BY DEF Request
    <3> QED  BY <1>0, <1>8, <3>1 DEF PollChats
  <2> QED  BY <1>0, <1>8, <2>1, SameTables, NetTypes DEF PollChats
<1>9. CASE handle_get_chats_response
  <2>1. replies' \in Seq(Reply) /\ Head(replies).chats \in SUBSET Nat
    BY <1>0, <1>9, TailPart DEF handle_get_chats_response, Reads, Reply
  <2>2. chats_store' \in SUBSET Nat /\ careful' \in BOOLEAN
    BY <1>0, <1>9, <2>1 DEF handle_get_chats_response, TypeInv, TypeOK
  <2>3. DatabaseTypeOK'
    BY <1>0, <1>9, SameTables DEF handle_get_chats_response
  <2> QED  BY <1>9, <2>1, <2>2, <2>3
           DEF handle_get_chats_response, entry, choice, TypeInv, TypeOK, EditTextInv
<1> QED  BY <1>1, <1>2, <1>3, <1>4, <1>5, <1>6, <1>7, <1>8, <1>9 DEF Next

LEMMA EntryStart == Init => EditInv /\ TypeInv
<1> SUFFICES ASSUME Init PROVE EditInv /\ TypeInv
  OBVIOUS
<1>1. EditInv /\ EditTextInv
  BY DEF Init, EditInv, DraftSurvivesEdits, EditsAreMeant, EditTextInv
<1>2. DatabaseTypeOK
  <2>1. DOMAIN InitUsers \subseteq Nat
    BY EntryAssumption
  <2> QED  BY <2>1, EntryAssumption DEF Init, DatabaseTypeOK
<1>3. << >> \in Seq(Request) /\ << >> \in Seq(Reply) /\ session \in Nat
  BY EntryAssumption DEF Init
<1> QED  BY <1>1, <1>2, <1>3 DEF Init, TypeInv, TypeOK

\* The types, and with them that the marker of a deleted message is never sent.
THEOREM EntryTypes == Spec => []TypeOK
<1>1. TypeInv => TypeOK
  BY DEF TypeInv
<1> QED  BY <1>1, EntryStart, EditStep, TypeStep, PTL DEF Spec

----------------------------------------------------------------------------
(* Careful users *)

TrueRow(row) ==
    /\ row.id \in MessageIds
    /\ row.username = database_fetch_username(messages[row.id].user_id)

Mine(m, u) == m \in MessageIds /\ messages[m].user_id = u

Changes(r) == r.type \in {"UPDATE_MESSAGE", "DELETE_MESSAGE"}

RowsOf(r) == IF r.type = "GET_MESSAGES" THEN r.rows ELSE {}

\* What is shown and chosen names its author.
ShownInv ==
    /\ users = InitUsers
    /\ \A row \in messages_store : TrueRow(row)
    /\ \A i \in DOMAIN replies : \A row \in RowsOf(replies[i]) : TrueRow(row)
    /\ selection # 0 => selected_message.id = selection /\ TrueRow(selected_message)
    /\ me \in {0} \cup UserIds

\* The menu that is shown and the edit that is begun are for a message of the user who
\* is signed in, and what is sent is obeyed for the user who sent it.
OwnInv ==
    /\ menu => me # 0
    /\ careful =>
         /\ menu => Mine(selected_message.id, me)
         /\ being_edited => me # 0 /\ Mine(selected_message.id, me)
         /\ me # 0 => session = me
         /\ \A i \in DOMAIN requests :
               Changes(requests[i]) => Mine(requests[i].id, session)

\* The chats listed, and those that are on their way, are of the user signed in.
ListInv ==
    careful =>
        /\ me = 0 => chats_store = {}
        /\ me # 0 =>
             /\ chats_store \subseteq UserChats(me)
             /\ \A i \in DOMAIN replies :
                   replies[i].type = "GET_CHATS" => replies[i].chats \subseteq UserChats(me)

MemberInv ==
    /\ chosen => me # 0
    /\ careful =>
         /\ chosen => <<selected_chat, me>> \in members
         /\ \A i \in DOMAIN requests :
               requests[i].type = "ADD_MESSAGE" =>
                  <<requests[i].chat_id, session>> \in members
    /\ AuthorsAreMembers

CareInv == ShownInv /\ OwnInv /\ ListInv /\ MemberInv

\* Statements keep true rows true and messages their author's.
LEMMA StayTrue ==
    ASSUME RowsStay
    PROVE  /\ \A row : TrueRow(row) => TrueRow(row)'
           /\ \A m, u : Mine(m, u) => Mine(m, u)'
<1>1. \A id : database_fetch_username(id)' = database_fetch_username(id)
  BY DEF RowsStay, database_fetch_username, UserIds
<1> QED  BY <1>1 DEF RowsStay, TrueRow, Mine

LEMMA SameRows == UNCHANGED tables => RowsStay
BY DEF tables, RowsStay, MessageIds

\* The name that a row shows is its author's alone.
LEMMA NameIsAuthor ==
    ASSUME ShownInv, me # 0, NEW row, TrueRow(row), row.username = {users[me].username}
    PROVE  Mine(row.id, me)
<1> DEFINE a == messages[row.id].user_id
<1>1. {users[i].username : i \in UserIds \cap {a}} = {users[me].username}
  BY DEF TrueRow, database_fetch_username
<1>2. PICK i \in UserIds \cap {a} : users[i].username = users[me].username
  BY <1>1
<1>3. i = me
  BY <1>2, EntryAssumption DEF ShownInv, UserIds
<1> QED  BY <1>2, <1>3 DEF Mine, TrueRow

\* Steps that leave the GTK thread's variables alone and send nothing.
LEMMA NetCare ==
    ASSUME CareInv, RowsStay, UNCHANGED <<entry, choice, place, messages_store>>,
           Part(requests', requests), session' = session, careful' = careful,
           \A i \in DOMAIN replies' :
              /\ \A row \in RowsOf(replies'[i]) : TrueRow(row)'
              /\ \/ \E j \in DOMAIN replies : replies'[i] = replies[j]
                 \/ replies'[i].type # "GET_CHATS"
                 \/ replies'[i].chats = UserChats(session),
           careful => \A m \in MessageIds' \ MessageIds :
                         <<messages'[m].chat_id, messages'[m].user_id>> \in members
    PROVE  CareInv'
<1>1. ShownInv'
  BY StayTrue DEF CareInv, ShownInv, RowsStay, UserIds, choice, place
<1>2. OwnInv'
  <2>1. \A i \in DOMAIN requests' : \E j \in DOMAIN requests : requests'[i] = requests[j]
    BY DEF Part
  <2> QED  BY <2>1, StayTrue DEF CareInv, OwnInv, choice, place, entry
<1>3. MemberInv'
  <2>1. \A i \in DOMAIN requests' : \E j \in DOMAIN requests : requests'[i] = requests[j]
    BY DEF Part
  <2>2. members' = members /\ UNCHANGED <<chosen, me, selected_chat>>
    BY DEF RowsStay, place
  <2>3. AuthorsAreMembers'
    BY <2>2 DEF CareInv, MemberInv, AuthorsAreMembers, RowsStay
  <2> QED  BY <2>1, <2>2, <2>3 DEF CareInv, MemberInv
<1>4. ListInv'
  <2>1. UNCHANGED <<me, chats_store>> /\ (careful /\ me # 0 => session = me)
    BY DEF CareInv, OwnInv, place
  <2>2. \A u : UserChats(u)' = UserChats(u)
    BY DEF RowsStay, UserChats
  <2> QED  BY <2>1, <2>2 DEF CareInv, ListInv
<1> QED  BY <1>1, <1>2, <1>3, <1>4 DEF CareInv

\* After the loss of a connection nothing is promised but that rows are true.
LEMMA NewConnectionCare ==
    ASSUME TypeInv, CareInv, RowsStay, UNCHANGED <<entry, choice, place, messages_store>>,
           NewConnection
    PROVE  CareInv'
<1>1. Part(replies', replies) /\ careful' = FALSE
  BY NewConnectionTypes
<1>2. ShownInv'
  BY <1>1, StayTrue DEF CareInv, ShownInv, RowsStay, UserIds, choice, place, Part
<1> QED  BY <1>1, <1>2
         DEF CareInv, OwnInv, ListInv, MemberInv, AuthorsAreMembers, choice, place

\* An edit that goes on when the store is emptied is of the message it was of.
LEMMA EmptiedChoice ==
    StoreEmptied => /\ messages_store' = {} /\ selection' = 0
                    /\ being_edited' => being_edited /\ selected_message' = selected_message
BY DEF StoreEmptied, NoRowChosen, RowChosen, entry

\* Steps of the user that change no table, for whose rows nothing changes.
LEMMA UserShown ==
    ASSUME ShownInv, UNCHANGED tables,
           messages_store' \subseteq messages_store, replies' = replies,
           \/ selection' = 0
           \/ selection' = selection /\ selected_message' = selected_message
           \/ /\ selected_message' \in messages_store
              /\ selection' = selected_message'.id,
           me' \in {0} \cup UserIds
    PROVE  ShownInv'
<1>1. \A row : TrueRow(row) => TrueRow(row)'
  BY SameRows, StayTrue
<1>2. users' = users /\ UserIds' = UserIds
  BY DEF tables, UserIds
<1> QED  BY <1>1, <1>2 DEF ShownInv

\* Nothing is sent and no chat chosen.
LEMMA UserMember ==
    ASSUME MemberInv, UNCHANGED tables, UNCHANGED <<place, requests, session>>,
           careful' => careful
    PROVE  MemberInv'
BY DEF MemberInv, AuthorsAreMembers, tables, place, MessageIds

LEMMA SameMine == UNCHANGED tables => \A m, u : Mine(m, u)' = Mine(m, u)
BY DEF tables, Mine, MessageIds

\* Only a sign-in and a log-out change whose chats should be listed.
LEMMA UserList == TypeInv /\ ListInv /\ UserActs => ListInv'
<1> SUFFICES ASSUME TypeInv, ListInv, UserActs PROVE ListInv'
  OBVIOUS
<1>1. ASSUME UNCHANGED <<tables, me, chats_store, replies>>, careful' => careful
      PROVE  ListInv'
  <2>1. \A u : UserChats(u)' = UserChats(u)
    BY <1>1 DEF tables, UserChats
  <2> QED  BY <1>1, <2>1 DEF ListInv
<1>2. ASSUME NEW u \in Locals, SignIn(u) PROVE ListInv'
  <2>1. /\ me = 0 /\ DOMAIN replies' = {} /\ chats_store' = chats_store
        /\ careful' = careful
    BY <1>2 DEF SignIn
  <2> QED  BY <2>1 DEF ListInv
<1>3. CASE LogOut
  BY <1>3 DEF LogOut, ListInv
<1>4. careful \in BOOLEAN
  BY DEF TypeInv, TypeOK
<1>5. ASSUME NEW text \in Bodies \cup {Empty}, Type(text) PROVE ListInv'
  BY <1>1, <1>5 DEF Type, place, net
<1>6. ASSUME NEW row \in messages_store, Click(row) \/ RightClick(row) PROVE ListInv'
  BY <1>1, <1>4, <1>6 DEF Click, RightClick, place, net
<1>7. CASE ClickElsewhere \/ CloseMenu \/ edit_messages \/ delete_messages
  BY <1>1, <1>7 DEF ClickElsewhere, CloseMenu, edit_messages, delete_messages, place, net
<1>8. CASE SendEdit \/ SendNew
  BY <1>1, <1>4, <1>8 DEF SendEdit, SendNew, place
<1>9. ASSUME NEW c \in chats_store, SelectChat(c) PROVE ListInv'
  BY <1>1, <1>9 DEF SelectChat, net
<1>10. CASE Deselect
  BY <1>1, <1>10 DEF Deselect, net
<1> QED
  BY <1>2, <1>3, <1>5, <1>6, <1>7, <1>8, <1>9, <1>10 DEF UserActs

LEMMA UserCare == TypeInv /\ EditInv /\ CareInv /\ UserActs => CareInv'
<1> SUFFICES ASSUME TypeInv, EditInv, ShownInv, OwnInv, ListInv, MemberInv, UserActs
             PROVE  ShownInv' /\ OwnInv' /\ MemberInv'
  BY UserList DEF CareInv
<1>0. requests \in Seq(Request) /\ menu \in BOOLEAN /\ careful \in BOOLEAN
  BY DEF TypeInv, TypeOK
<1>1. ASSUME NEW u \in Locals, SignIn(u) PROVE ShownInv' /\ OwnInv' /\ MemberInv'
  <2>1. u \in UserIds /\ u # 0
    BY EntryAssumption DEF ShownInv, UserIds
  <2>2. DOMAIN requests = {}
    BY <1>1 DEF SignIn
  <2>3. ShownInv'
    BY <1>1, <2>1, UserShown DEF SignIn, choice
  <2>4. OwnInv'
    BY <1>1, <2>1, <2>2 DEF SignIn, OwnInv, choice, entry
  <2>5. MemberInv'
    BY <1>1, <2>1, <2>2 DEF SignIn, MemberInv, AuthorsAreMembers, tables, MessageIds
  <2> QED  BY <2>3, <2>4, <2>5
<1>2. ASSUME NEW text \in Bodies \cup {Empty}, Type(text)
      PROVE  ShownInv' /\ OwnInv' /\ MemberInv'
  <2>1. ShownInv' /\ MemberInv'
    BY <1>2, UserShown, UserMember DEF Type, choice, place, net, ShownInv
  <2>2. OwnInv'
    BY <1>2, SameMine DEF Type, OwnInv, choice, place, net
  <2> QED  BY <2>1, <2>2
<1>3. ASSUME NEW row \in messages_store, Click(row)
      PROVE  ShownInv' /\ OwnInv' /\ MemberInv'
  <2>1. selected_message' = row /\ being_edited' = FALSE /\ ~menu /\ menu' = menu
    BY <1>3 DEF Click, RowChosen, Acts
  <2>2. ShownInv' /\ MemberInv'
    BY <1>3, <2>1, UserShown, UserMember DEF Click, place, net, ShownInv
  <2>3. OwnInv'
    BY <1>3, <2>1, SameMine DEF Click, OwnInv, place, net
  <2> QED  BY <2>2, <2>3
<1>4. ASSUME NEW row \in messages_store, RightClick(row)
      PROVE  ShownInv' /\ OwnInv' /\ MemberInv'
  <2>1. /\ UNCHANGED <<tables, place, messages_store, net>> /\ selection' = row.id
        /\ me # 0 /\ ~menu /\ (careful' => careful)
    BY <1>0, <1>4 DEF RightClick, Acts
  <2>2. CASE row.id = selection
    <3>1. UNCHANGED <<selection, selected_message, entry>>
      BY <1>4, <2>2 DEF RightClick, NoRowChosen
    <3>2. ShownInv' /\ MemberInv'
      BY <2>1, <3>1, UserShown, UserMember DEF place, net, ShownInv
    <3>3. menu' => Mine(selected_message.id, me)
      <4>1. menu' => /\ selection # 0
                     /\ selected_message.username = {users[me].username}
        BY <1>4 DEF RightClick
      <4> QED  BY <2>1, <4>1, NameIsAuthor DEF ShownInv
    <3>4. OwnInv'
      BY <2>1, <3>1, <3>3, SameMine DEF OwnInv, place, net, entry
    <3> QED  BY <3>2, <3>4
  <2>3. CASE row.id # selection
    <3>1. selected_message' = row /\ being_edited' = FALSE
      BY <1>4, <2>3 DEF RightClick, RowChosen
    <3>2. ShownInv' /\ MemberInv'
      BY <2>1, <3>1, UserShown, UserMember DEF place, net, ShownInv
    <3>3. careful' => ~menu'
      BY <1>0, <1>4, <2>3 DEF RightClick
    <3>4. OwnInv'
      BY <2>1, <3>1, <3>3, SameMine DEF OwnInv, place, net
    <3> QED  BY <3>2, <3>4
  <2> QED  BY <2>2, <2>3
<1>5. CASE ClickElsewhere
  <2>1. ShownInv' /\ MemberInv'
    BY <1>5, UserShown, UserMember DEF ClickElsewhere, place, net, ShownInv
  <2>2. OwnInv'
    BY <1>5, SameMine DEF ClickElsewhere, OwnInv, place, net, entry
  <2> QED  BY <2>1, <2>2
<1>6. CASE CloseMenu
  <2>1. ShownInv' /\ MemberInv'
    BY <1>6, UserShown, UserMember DEF CloseMenu, place, net, ShownInv
  <2>2. OwnInv'
    BY <1>6, SameMine DEF CloseMenu, OwnInv, place, net, entry
  <2> QED  BY <2>1, <2>2
<1>7. CASE edit_messages
  <2>1. ShownInv' /\ MemberInv'
    BY <1>7, UserShown, UserMember DEF edit_messages, place, net, ShownInv
  <2>2. OwnInv'
    BY <1>7, SameMine DEF edit_messages, OwnInv, place, net
  <2> QED  BY <2>1, <2>2
<1>8. CASE delete_messages
  <2> DEFINE r == [type |-> "DELETE_MESSAGE", id |-> selected_message.id]
  <2>1. r \in Request
    BY DEF Request, TypeInv, TypeOK
  <2>2. \A i \in DOMAIN requests' :
           requests'[i] = r \/ \E j \in DOMAIN requests : requests'[i] = requests[j]
    BY <1>0, <1>8, <2>1, AppendElements DEF delete_messages
  <2>3. ShownInv'
    BY <1>8, UserShown DEF delete_messages, place, ShownInv
  <2>4. OwnInv'
    BY <1>8, <2>2, SameMine DEF delete_messages, OwnInv, place, entry
  <2>5. MemberInv'
    BY <1>8, <2>2
       DEF delete_messages, MemberInv, AuthorsAreMembers, place, tables, MessageIds
  <2> QED  BY <2>3, <2>4, <2>5
<1>9. CASE SendEdit
  <2> DEFINE r == [type |-> "UPDATE_MESSAGE", id |-> selected_message.id,
                   body |-> message_buffer]
  <2>1. \A i \in DOMAIN requests' :
           requests'[i] = r \/ \E j \in DOMAIN requests : requests'[i] = requests[j]
    <3>1. CASE message_buffer = selected_message.text
      BY <1>9, <3>1 DEF SendEdit
    <3>2. CASE message_buffer # selected_message.text
      <4>1. r \in Request
        BY <1>9, <3>2, SentText DEF SendEdit, Request, TypeInv, TypeOK
      <4>2. requests' = Append(requests, r)
        BY <1>9, <3>2 DEF SendEdit
      <4> QED  BY <1>0, <4>1, <4>2, AppendElements
    <3> QED  BY <3>1, <3>2
  <2>2. r.type = "UPDATE_MESSAGE" /\ r.id = selected_message.id
    OBVIOUS
  <2> HIDE DEF r
  <2>3. ShownInv'
    BY <1>9, UserShown DEF SendEdit, choice, place, ShownInv
  <2>4. OwnInv'
    BY <1>9, <2>1, <2>2, SameMine DEF SendEdit, OwnInv, choice, place
  <2>5. MemberInv'
    BY <1>9, <2>1, <2>2
       DEF SendEdit, MemberInv, AuthorsAreMembers, place, tables, MessageIds
  <2> QED  BY <2>3, <2>4, <2>5
<1>10. CASE SendNew
  <2> DEFINE r == [type |-> "ADD_MESSAGE", chat_id |-> selected_chat,
                   body |-> message_buffer]
  <2>1. r \in Request
    BY <1>10 DEF SendNew, Request, EditInv, DraftSurvivesEdits, TypeInv, TypeOK
  <2>2. \A i \in DOMAIN requests' :
           requests'[i] = r \/ \E j \in DOMAIN requests : requests'[i] = requests[j]
    BY <1>0, <1>10, <2>1, AppendElements DEF SendNew
  <2>3. r.type = "ADD_MESSAGE" /\ r.chat_id = selected_chat /\ ~Changes(r)
    BY DEF Changes
  <2> HIDE DEF r
  <2>4. (careful' => careful /\ chosen) /\ me # 0
    BY <1>0, <1>10 DEF SendNew, Acts
  <2>5. ShownInv'
    BY <1>10, UserShown DEF SendNew, choice, place, ShownInv
  <2>6. OwnInv'
    BY <1>10, <2>2, <2>3, <2>4, SameMine DEF SendNew, OwnInv, choice, place
  <2>7. MemberInv'
    BY <1>10, <2>2, <2>3, <2>4
       DEF SendNew, MemberInv, OwnInv, AuthorsAreMembers, place, tables, MessageIds
  <2> QED  BY <2>5, <2>6, <2>7
<1>11. ASSUME NEW c \in chats_store, SelectChat(c)
       PROVE  ShownInv' /\ OwnInv' /\ MemberInv'
  <2>1. /\ UNCHANGED <<tables, me, menu, net, careful>> /\ StoreEmptied
        /\ me # 0 /\ ~menu /\ selected_chat' = c
    BY <1>11 DEF SelectChat, Acts
  <2>2. ShownInv'
    BY <2>1, EmptiedChoice, UserShown DEF net, ShownInv
  <2>3. OwnInv'
    BY <2>1, EmptiedChoice, SameMine DEF OwnInv, net
  <2>4. careful => <<c, me>> \in members
    BY <2>1 DEF ListInv, UserChats
  <2>5. MemberInv'
    BY <2>1, <2>4 DEF MemberInv, AuthorsAreMembers, net, tables, MessageIds
  <2> QED  BY <2>2, <2>3, <2>5
<1>12. CASE Deselect
  <2>1. ShownInv'
    BY <1>12, UserShown DEF Deselect, choice, net, ShownInv
  <2>2. OwnInv'
    BY <1>12, SameMine DEF Deselect, OwnInv, choice, net, entry
  <2>3. MemberInv'
    BY <1>12 DEF Deselect, MemberInv, AuthorsAreMembers, net, tables, MessageIds
  <2> QED  BY <2>1, <2>2, <2>3
<1>13. CASE LogOut
  <2>1. /\ UNCHANGED <<tables, menu, net>> /\ StoreEmptied
        /\ me' = 0 /\ chosen' = FALSE /\ ~menu
    BY <1>13 DEF LogOut, Acts
  <2>2. careful' => careful /\ ~being_edited'
    BY <1>13 DEF LogOut
  <2>3. ShownInv'
    BY <2>1, EmptiedChoice, UserShown DEF net
  <2>4. OwnInv'
    BY <2>1, <2>2, SameMine DEF OwnInv, net
  <2>5. MemberInv'
    BY <2>1, <2>2 DEF MemberInv, AuthorsAreMembers, net, tables, MessageIds
  <2> QED  BY <2>3, <2>4, <2>5
<1> QED
  BY <1>1, <1>2, <1>3, <1>4, <1>5, <1>6, <1>7, <1>8, <1>9, <1>10, <1>11, <1>12, <1>13
     DEF UserActs

LEMMA ServerCare ==
    /\ TypeInv /\ CareInv
    /\ AddMessage \/ ModifyMessage \/ DeleteMessage \/ GetMessages \/ GetChats
    => CareInv'
<1> SUFFICES ASSUME TypeInv, CareInv,
                    AddMessage \/ ModifyMessage \/ DeleteMessage \/ GetMessages \/ GetChats
             PROVE  CareInv'
  OBVIOUS
<1>1. /\ requests \in Seq(Request) /\ replies \in Seq(Reply)
      /\ session \in Nat /\ DatabaseTypeOK /\ requests # << >>
  BY DEF TypeInv, TypeOK, AddMessage, ModifyMessage, DeleteMessage, GetMessages, GetChats,
         Serves
<1>2. /\ Head(requests) \in Request /\ Part(Tail(requests), requests)
      /\ \E j \in DOMAIN requests : Head(requests) = requests[j]
  BY <1>1, TailPart
<1>3. UNCHANGED <<entry, choice, place, messages_store>>
  BY DEF AddMessage, ModifyMessage, DeleteMessage, GetMessages, GetChats, Serves
<1>4. RowsStay => \A i \in DOMAIN replies : \A row \in RowsOf(replies[i]) : TrueRow(row)'
  BY StayTrue DEF CareInv, ShownInv
<1>5. ASSUME Answered, RowsStay,
             careful => \A m \in MessageIds' \ MessageIds :
                           <<messages'[m].chat_id, messages'[m].user_id>> \in members
      PROVE  CareInv'
  <2>1. /\ Part(requests', requests) /\ replies' = replies
        /\ session' = session /\ careful' = careful
    BY <1>2, <1>5 DEF Answered
  <2> QED  BY <1>3, <1>4, <1>5, <2>1, NetCare
<1>6. ASSUME NewConnection, RowsStay PROVE CareInv'
  BY <1>3, <1>6, NewConnectionCare
<1>7. CASE AddMessage
  <2>1. Head(requests).chat_id \in Nat /\ Head(requests).body \in Bodies
    BY <1>2, <1>7 DEF AddMessage, Serves, Request
  <2>2. /\ RowsStay
        /\ \A m \in MessageIds' \ MessageIds : /\ messages'[m].user_id = session
                                             /\ messages'[m].chat_id = Head(requests).chat_id
    BY <1>1, <1>7, <2>1, Inserted DEF AddMessage
  <2>3. careful => <<Head(requests).chat_id, session>> \in members
    BY <1>2, <1>7 DEF AddMessage, Serves, CareInv, MemberInv
  <2> QED  BY <1>5, <1>6, <1>7, <2>2, <2>3 DEF AddMessage
<1>8. CASE ModifyMessage
  <2>1. Head(requests).body \in Bodies
    BY <1>2, <1>8 DEF ModifyMessage, Serves, Request
  <2>2. RowsStay /\ MessageIds' = MessageIds
    BY <1>1, <1>8, <2>1, Modified DEF ModifyMessage
  <2> QED  BY <1>5, <1>8, <2>2 DEF ModifyMessage
<1>9. CASE DeleteMessage
  <2>1. RowsStay /\ MessageIds' = MessageIds
    BY <1>1, <1>9, Modified DEF DeleteMessage
  <2> QED  BY <1>5, <1>9, <2>1 DEF DeleteMessage
<1>10. CASE GetMessages
  <2> DEFINE shown == ChatMessages(Head(requests).chat_id)
             new == {Row(m) : m \in shown}
  <2>1. RowsStay /\ MessageIds' = MessageIds
    BY <1>10, SameRows DEF GetMessages, tables, MessageIds
  <2>2. CASE NewConnection
    BY <1>6, <2>1, <2>2
  <2> DEFINE reply == [type |-> "GET_MESSAGES", rows |-> new]
  <2>3. CASE /\ requests' = Tail(requests) /\ replies' = Append(replies, reply)
             /\ session' = session /\ careful' = careful
    <3>1. \A m \in shown : TrueRow(Row(m))
      BY DEF ChatMessages, TrueRow, Row, MessageOut
    <3>2. \A row \in new : TrueRow(row)'
      BY <2>1, <3>1, StayTrue
    <3>3. new \in SUBSET ShownRow
      BY <1>1, RowType DEF ChatMessages
    <3> HIDE DEF new
    <3>4. reply \in Reply /\ RowsOf(reply) = new /\ reply.type # "GET_CHATS"
      BY <3>3 DEF Reply, RowsOf
    <3> HIDE DEF reply
    <3>5. \A i \in DOMAIN replies' :
             replies'[i] = reply \/ \E j \in DOMAIN replies : replies'[i] = replies[j]
      BY <1>1, <2>3, <3>4, AppendElements
    <3>6. \A i \in DOMAIN replies' : \A row \in RowsOf(replies'[i]) : TrueRow(row)'
      BY <1>4, <2>1, <3>2, <3>4, <3>5
    <3> QED  BY <1>2, <1>3, <2>1, <2>3, <3>4, <3>5, <3>6, NetCare
  <2> QED  BY <1>10, <2>2, <2>3 DEF GetMessages
<1>11. CASE GetChats
  <2>1. RowsStay /\ MessageIds' = MessageIds
    BY <1>11, SameRows DEF GetChats, tables, MessageIds
  <2>2. CASE NewConnection
    BY <1>6, <2>1, <2>2
  <2> DEFINE reply == [type |-> "GET_CHATS", chats |-> UserChats(session)]
  <2>3. CASE /\ requests' = Tail(requests) /\ replies' = Append(replies, reply)
             /\ session' = session /\ careful' = careful
    <3>1. /\ reply \in Reply /\ RowsOf(reply) = {} /\ reply.chats = UserChats(session)
      BY <1>1 DEF Reply, RowsOf, UserChats, DatabaseTypeOK
    <3> HIDE DEF reply
    <3>2. \A i \in DOMAIN replies' :
             replies'[i] = reply \/ \E j \in DOMAIN replies : replies'[i] = replies[j]
      BY <1>1, <2>3, <3>1, AppendElements
    <3>3. \A i \in DOMAIN replies' : \A row \in RowsOf(replies'[i]) : TrueRow(row)'
      BY <1>4, <2>1, <3>1, <3>2
    <3> QED  BY <1>2, <1>3, <2>1, <2>3, <3>1, <3>2, <3>3, NetCare
  <2> QED  BY <1>11, <2>2, <2>3 DEF GetChats
<1> QED  BY <1>7, <1>8, <1>9, <1>10, <1>11

LEMMA CareStep == TypeInv /\ EditInv /\ CareInv /\ [Next]_vars => CareInv'
<1> SUFFICES ASSUME TypeInv, EditInv, CareInv, [Next]_vars PROVE CareInv'
  OBVIOUS
<1>0. /\ requests \in Seq(Request) /\ replies \in Seq(Reply) /\ timer \in Nat
      /\ DatabaseTypeOK /\ careful \in BOOLEAN /\ menu \in BOOLEAN
  BY DEF TypeInv, TypeOK
<1>1. CASE UserActs
  BY <1>1, UserCare
<1>2. CASE Poll
  <2> DEFINE r == [type |-> "GET_MESSAGES", chat_id |-> timer]
  <2>1. r \in Request /\ ~Changes(r) /\ r.type # "ADD_MESSAGE"
    BY <1>0 DEF Request, Changes
  <2>2. requests' = Append(requests, r)
    BY <1>2 DEF Poll
  <2> HIDE DEF r
  <2>3. \A i \in DOMAIN requests' :
           requests'[i] = r \/ \E j \in DOMAIN requests : requests'[i] = requests[j]
    BY <1>0, <2>1, <2>2, AppendElements
  <2>4. ShownInv'
    BY <1>2, UserShown DEF Poll, choice, place, CareInv, ShownInv
  <2>5. OwnInv'
    BY <1>2, <2>1, <2>3, SameMine DEF Poll, CareInv, OwnInv, choice, place, entry
  <2>6. MemberInv'
    BY <1>2, <2>1, <2>3
       DEF Poll, CareInv, MemberInv, AuthorsAreMembers, place, tables, MessageIds
  <2>7. ListInv'
    BY <1>2 DEF Poll, CareInv, ListInv, place, tables, UserChats
  <2> QED  BY <2>4, <2>5, <2>6, <2>7 DEF CareInv
<1>3. CASE Refresh
  <2>1. /\ UNCHANGED <<tables, menu, place, requests, session>> /\ replies # << >>
        /\ replies' = Tail(replies) /\ Head(replies).rows = RowsOf(Head(replies))
    BY <1>3 DEF Refresh, Reads, RowsOf
  <2>2. /\ \A row \in RowsOf(Head(replies)) : TrueRow(row)'
        /\ \A i \in DOMAIN replies' : \A row \in RowsOf(replies'[i]) : TrueRow(row)'
    <3>1. Part(replies', replies) /\ \E j \in DOMAIN replies : Head(replies) = replies[j]
      BY <1>0, <2>1, TailPart
    <3> QED  BY <2>1, <3>1, SameRows, StayTrue DEF CareInv, ShownInv, Part
  <2>3. \A row : TrueRow(row) => TrueRow(row)'
    BY <2>1, SameRows, StayTrue
  <2>4. me' \in {0} \cup UserIds' /\ users' = InitUsers
    BY <2>1 DEF place, tables, CareInv, ShownInv, UserIds
  <2>5. (careful' => careful) => MemberInv' /\ ListInv'
    <3>1. (careful' => careful) => MemberInv'
      BY <2>1 DEF CareInv, MemberInv, AuthorsAreMembers, place, tables, MessageIds
    <3>2. Part(replies', replies)
      BY <1>0, <2>1, TailPart
    <3>3. (careful' => careful) => ListInv'
      BY <2>1, <3>2 DEF CareInv, ListInv, Part, place, tables, UserChats
    <3> QED  BY <3>1, <3>3
  <2>6. CASE StoreEmptied /\ careful' = (careful /\ ~menu)
    <3>1. careful' => careful /\ ~menu
      BY <2>6
    <3>2. /\ messages_store' = {} /\ selection' = 0
          /\ being_edited' => being_edited /\ selected_message' = selected_message
      BY <2>6, EmptiedChoice
    <3>3. ShownInv'
      BY <2>2, <2>4, <3>2 DEF ShownInv
    <3>4. OwnInv'
      BY <2>1, <3>1, <3>2, SameMine DEF CareInv, OwnInv, place
    <3> QED  BY <2>5, <3>1, <3>3, <3>4 DEF CareInv
  <2>7. CASE /\ \A row \in messages_store' : row \in messages_store \/ row \in RowsOf(Head(replies))
             /\ UNCHANGED <<selection, selected_message, entry, careful>>
    <3>1. ShownInv'
      BY <2>2, <2>3, <2>4, <2>7 DEF CareInv, ShownInv
    <3>2. OwnInv'
      BY <2>1, <2>7, SameMine DEF CareInv, OwnInv, place, entry
    <3> QED  BY <2>5, <2>7, <3>1, <3>2 DEF CareInv
  <2> QED  BY <1>3, <2>1, <2>6, <2>7 DEF Refresh
<1>4. CASE AddMessage \/ ModifyMessage \/ DeleteMessage \/ GetMessages \/ GetChats
  BY <1>4, ServerCare
<1>5. CASE ConnectionLost
  BY <1>5, SameRows, NewConnectionCare DEF ConnectionLost
<1>6. CASE Others
  <2>1. /\ RowsStay
        /\ \A m \in MessageIds' \ MessageIds :
              <<messages'[m].chat_id, messages'[m].user_id>> \in members
    <3>1. ASSUME NEW p \in members, NEW body \in Bodies, InsertMessage(p[2], p[1], body)
          PROVE  <2>1
      <4>1. p[1] \in Nat /\ p[2] \in Nat /\ p = <<p[1], p[2]>>
        BY <1>0 DEF DatabaseTypeOK
      <4> QED  BY <1>0, <3>1, <4>1, Inserted
    <3>2. ASSUME NEW m, (\E body \in Bodies : UpdateMessage(m, body)) \/ RemoveMessage(m)
          PROVE  <2>1
      BY <1>0, <3>2, Modified
    <3> QED  BY <1>6, <3>1, <3>2 DEF Others
  <2>2. UNCHANGED <<entry, choice, place, messages_store, requests, replies, session, careful>>
    BY <1>6 DEF Others, net
  <2>3. \A i \in DOMAIN replies' : \A row \in RowsOf(replies'[i]) : TrueRow(row)'
    BY <2>1, <2>2, StayTrue DEF CareInv, ShownInv
  <2> QED  BY <2>1, <2>2, <2>3, SamePart, NetCare
<1>7. CASE UNCHANGED vars
  <2>1. \A i \in DOMAIN replies' : \A row \in RowsOf(replies'[i]) : TrueRow(row)'
    BY <1>7, SameRows, StayTrue DEF vars, net, CareInv, ShownInv
  <2>2. RowsStay /\ MessageIds' = MessageIds
    BY <1>7, SameRows DEF vars, tables, MessageIds
  <2> QED  BY <1>7, <2>1, <2>2, SamePart, NetCare DEF vars, net
<1>8. CASE PollChats
  <2> DEFINE r == [type |-> "GET_CHATS"]
  <2>1. r \in Request /\ ~Changes(r) /\ r.type # "ADD_MESSAGE"
    BY DEF Request, Changes
  <2>2. requests' = Append(requests, r)
    BY <1>8 DEF PollChats
  <2> HIDE DEF r
  <2>3. \A i \in DOMAIN requests' :
           requests'[i] = r \/ \E j \in DOMAIN requests : requests'[i] = requests[j]
    BY <1>0, <2>1, <2>2, AppendElements
  <2>4. ShownInv'
    BY <1>8, UserShown DEF PollChats, choice, place, CareInv, ShownInv
  <2>5. OwnInv'
    BY <1>8, <2>1, <2>3, SameMine DEF PollChats, CareInv, OwnInv, choice, place, entry
  <2>6. MemberInv'
    BY <1>8, <2>1, <2>3
       DEF PollChats, CareInv, MemberInv, AuthorsAreMembers, place, tables, MessageIds
  <2>7. ListInv'
    BY <1>8 DEF PollChats, CareInv, ListInv, place, tables, UserChats
  <2> QED  BY <2>4, <2>5, <2>6, <2>7 DEF CareInv
<1>9. CASE handle_get_chats_response
  <2>1. /\ Part(replies', replies) /\ RowsStay
        /\ \E j \in DOMAIN replies : Head(replies) = replies[j]
        /\ Head(replies).type = "GET_CHATS"
    BY <1>0, <1>9, TailPart, SameRows DEF handle_get_chats_response, Reads
  <2>2. /\ UNCHANGED <<tables, entry, choice, me, selected_chat, chosen, messages_store,
                       requests, session>>
        /\ chats_store' \in {chats_store, chats_store \cup Head(replies).chats}
        /\ careful' = (careful /\ (me = 0 => chats_store' = {}))
    BY <1>9 DEF handle_get_chats_response
  <2>3. ShownInv'
    BY <2>1, <2>2, StayTrue DEF CareInv, ShownInv, Part, choice, tables, UserIds
  <2>4. OwnInv'
    BY <1>0, <2>2, SameMine DEF CareInv, OwnInv, choice, entry
  <2>5. MemberInv'
    BY <1>0, <2>2 DEF CareInv, MemberInv, AuthorsAreMembers, tables, MessageIds
  <2>6. ListInv'
    BY <1>0, <2>1, <2>2 DEF CareInv, ListInv, Part, tables, UserChats
  <2> QED  BY <2>3, <2>4, <2>5, <2>6 DEF CareInv
<1> QED  BY <1>1, <1>2, <1>3, <1>4, <1>5, <1>6, <1>7, <1>8, <1>9 DEF Next

LEMMA CareInit == Init => CareInv
<1> SUFFICES ASSUME Init PROVE CareInv
  OBVIOUS
<1>1. ShownInv /\ OwnInv /\ ListInv
  BY DEF Init, ShownInv, OwnInv, ListInv
<1>2. MemberInv
  BY EntryAssumption DEF Init, MemberInv, AuthorsAreMembers, MessageIds
<1> QED  BY <1>1, <1>2 DEF CareInv

LEMMA EntryInvariant == Spec => [](EditInv /\ TypeInv /\ CareInv)
<1>1. Init => EditInv /\ TypeInv
  BY EntryStart
<1> QED  BY <1>1, CareInit, EditStep, TypeStep, CareStep, PTL DEF Spec

\* A careful user never has a message of another one edited or deleted.
THEOREM CarefulChange == Spec => []OnlyOwnChange
<1>1. CareInv => OnlyOwnChange
  BY DEF CareInv, OwnInv, OnlyOwnChange, Changes, Mine
<1> QED  BY <1>1, EntryInvariant, PTL

\* With careful users every message is by a member of its chat.
THEOREM CarefulPost == Spec => []AuthorsAreMembers
<1>1. CareInv => AuthorsAreMembers
  BY DEF CareInv, MemberInv
<1> QED  BY <1>1, EntryInvariant, PTL
=============================================================================
