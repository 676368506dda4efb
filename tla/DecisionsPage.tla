--------------------------- MODULE DecisionsPage ---------------------------
(***************************************************************************)
(* The assistant's conversations: DecisionsPage.tsx and the server's       *)
(* endpoints that keep them (conversation_views.py).  One question at a    *)
(* time is answered, by a stream; whenever the messages change and the     *)
(* last one is a settled answer the whole conversation is saved, under the *)
(* identifier the page has at that moment.                                 *)
(*                                                                         *)
(* A question and its answer are an exchange, which remembers the          *)
(* conversation it was asked in.  The random identifier of a new           *)
(* conversation is its number.  Left out: what is said, tool calls, the    *)
(* study of the URL, the thinking line.                                    *)
(***************************************************************************)
EXTENDS Naturals, Sequences, SequencesExt, FiniteSetsExt

CONSTANTS
  MaxChats,     \* bound on conversations begun
  MaxAsked,     \* bound on questions
  MaxRequests,  \* bound on requests in flight
  None

VARIABLES
  stored,    \* conversations on the server: title, exchanges; or None
  history,   \* identifiers in the sidebar
  messages, conversationId, title,
  chat,      \* the conversation the page is in, which has no identifier at first
  chats,     \* conversations begun
  stream,    \* the exchange that is being answered (sending), or None
  asked,
  requests

pageVars == <<history, messages, conversationId, title, chat, chats, stream, asked>>
vars == <<stored, pageVars, requests>>

-----------------------------------------------------------------------------

Chat == 1 .. MaxChats

Init ==
  /\ stored = [c \in Chat |-> None]
  /\ history = {}
  /\ messages = <<>>
  /\ conversationId = None
  /\ title = None
  /\ chat = 1 /\ chats = 1
  /\ stream = None
  /\ asked = 0
  /\ requests = {[id |-> 1, kind |-> "history", of |-> None, content |-> None, served |-> FALSE]}

Asked(rs, kind, of, content) ==
  rs \cup {[id |-> Min((1 .. MaxRequests) \ {r.id : r \in rs}), kind |-> kind, of |-> of,
            content |-> content, served |-> FALSE]}

Room(rs) == Cardinality(rs) < MaxRequests

(* What is sent: an answer that is still streaming is left out. *)
Content(ms) == [i \in DOMAIN ms |-> [ms[i] EXCEPT !.answered = @ = "yes"]]

(* The effect on [messages], with the values of the same render. *)
SaveEffect(ms, id, ttl, rs) ==
  LET save == ms # <<>> /\ Last(ms).answered = "yes"
  IN  /\ save => Room(rs)
      /\ messages' = ms
      /\ title' = ttl
      /\ conversationId' = IF save /\ id = None THEN chat' ELSE id
      /\ requests' = IF save
                       THEN Asked(rs, "save", conversationId',
                                  [title |-> IF ttl = None THEN chat' ELSE ttl,
                                   exchanges |-> Content(ms)])
                       ELSE rs

-----------------------------------------------------------------------------
(* The sidebar *)

StartNew ==
  /\ chats < MaxChats
  /\ chat' = chats + 1 /\ chats' = chats + 1
  /\ messages' = <<>> /\ conversationId' = None /\ title' = None
  /\ UNCHANGED <<stored, history, stream, asked, requests>>

LoadConversation(c) ==
  /\ c \in history /\ Room(requests)
  /\ requests' = Asked(requests, "load", c, None)
  /\ UNCHANGED <<stored, pageVars>>

(* Leaving the page and coming back: the component starts anew, a stream   *)
(* and answers to the old one are heard by nobody.                         *)
Reopen ==
  /\ chats < MaxChats
  /\ chat' = chats + 1 /\ chats' = chats + 1
  /\ messages' = <<>> /\ conversationId' = None /\ title' = None
  /\ history' = {} /\ stream' = None
  /\ LET saves == {r \in requests : r.kind = "save"}
     IN  /\ Room(saves)
         /\ requests' = Asked(saves, "history", None, None)
  /\ UNCHANGED <<stored, asked>>

-----------------------------------------------------------------------------
(* Asking *)

Send ==
  /\ stream = None /\ asked < MaxAsked
  /\ asked' = asked + 1
  /\ messages' = Append(messages, [id |-> asked + 1, of |-> chat, answered |-> "streaming"])
  /\ stream' = [id |-> asked + 1, of |-> chat]
  /\ UNCHANGED <<stored, history, conversationId, title, chat, chats, requests>>

(* Updates reach the exchange by its identifier, if it is still there. *)
Patched(answered) ==
  [i \in DOMAIN messages |->
     IF messages[i].id = stream.id THEN [messages[i] EXCEPT !.answered = answered]
     ELSE messages[i]]

(* A delta makes a new list of the messages, whatever is in it. *)
Delta ==
  /\ stream # None
  /\ UNCHANGED <<stored, history, chat, chats, stream, asked>>
  /\ SaveEffect(Patched("streaming"), conversationId, title, requests)

(* The done event may bring a title; a request that fails counts as an     *)
(* answer.                                                                 *)
Settle ==
  /\ stream # None
  /\ stream' = None
  /\ UNCHANGED <<stored, history, chat, chats, asked>>
  /\ \E ttl \in {title, stream.of} : SaveEffect(Patched("yes"), conversationId, ttl, requests)

(* A stream that ends without done, as after an error event, which nothing *)
(* reads, leaves the answer streaming.                                     *)
EndWithoutDone ==
  /\ stream # None
  /\ stream' = None
  /\ UNCHANGED <<stored, history, messages, conversationId, title, chat, chats, asked, requests>>

-----------------------------------------------------------------------------
(* The server *)

Serve(r) ==
  /\ r \in requests /\ ~r.served
  /\ stored' = IF r.kind = "save" THEN [stored EXCEPT ![r.of] = r.content] ELSE stored
  /\ requests' = (requests \ {r}) \cup
       {[r EXCEPT !.served = TRUE,
                  !.content = IF r.kind = "history" THEN {c \in Chat : stored[c] # None}
                              ELSE IF r.kind = "load" THEN stored[r.of] ELSE None]}
  /\ UNCHANGED pageVars

HistoryAnswered(r) ==
  /\ r.kind = "history" /\ r.served
  /\ history' = r.content
  /\ requests' = requests \ {r}
  /\ UNCHANGED <<stored, messages, conversationId, title, chat, chats, stream, asked>>

SaveAnswered(r) ==
  /\ r.kind = "save" /\ r.served
  /\ requests' = Asked(requests \ {r}, "history", None, None)
  /\ UNCHANGED <<stored, pageVars>>

(* Wrong variant: the page keeps the identifier it had. *)
LoadAnsweredOnly(r) ==
  /\ r.kind = "load" /\ r.served /\ r.content # None
  /\ chat' = r.of
  /\ SaveEffect([i \in DOMAIN r.content.exchanges |->
                   [r.content.exchanges[i] EXCEPT !.answered = IF @ THEN "yes" ELSE "no"]],
                conversationId, r.content.title, requests \ {r})
  /\ UNCHANGED <<stored, history, chats, stream, asked>>

(* The conversation that is loaded is saved again at once. *)
LoadAnswered(r) ==
  /\ r.kind = "load" /\ r.served /\ r.content # None
  /\ chat' = r.of
  /\ SaveEffect([i \in DOMAIN r.content.exchanges |->
                   [r.content.exchanges[i] EXCEPT !.answered = IF @ THEN "yes" ELSE "no"]],
                r.of, r.content.title, requests \ {r})
  /\ UNCHANGED <<stored, history, chats, stream, asked>>

Failed(r) ==
  /\ r \in requests
  /\ requests' = requests \ {r}
  /\ UNCHANGED <<stored, pageVars>>

-----------------------------------------------------------------------------

Researcher ==
  \/ StartNew \/ Reopen \/ Send
  \/ \E c \in Chat : LoadConversation(c)

Network(r) ==
  Serve(r) \/ HistoryAnswered(r) \/ SaveAnswered(r) \/ LoadAnswered(r) \/ Failed(r)

Next ==
  \/ Researcher
  \/ Delta \/ Settle \/ EndWithoutDone
  \/ \E r \in requests : Network(r)

Spec == Init /\ [][Next]_vars

-----------------------------------------------------------------------------

(* A stored conversation is one conversation: its exchanges were asked in  *)
(* it, in the order in which they were asked, although the researcher may  *)
(* open another one, or begin one, while an answer is streaming and loads  *)
(* and saves are under way.                                                *)
ConversationsAreWhole ==
  \A c \in Chat : stored[c] # None =>
    LET es == stored[c].exchanges
    IN  /\ \A i \in DOMAIN es : es[i].of = c
        /\ \A i, j \in DOMAIN es : i < j => es[i].id < es[j].id

(* A stored conversation has its own title (violated: the title of an      *)
(* answer goes to the conversation that is open when it comes).            *)
TitlesAreOwn == \A c \in Chat : stored[c] # None => stored[c].title = c

(* A save never takes an exchange away (violated: saves that overtake each *)
(* other, a conversation loaded again while its next answer streams).      *)
NothingIsLost ==
  [][\A c \in Chat : stored[c] # None =>
       {e.id : e \in ToSet(stored[c].exchanges)}
         \subseteq {e.id : e \in ToSet(stored'[c].exchanges)}]_stored

=============================================================================
