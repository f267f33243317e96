-------------------------------- MODULE Httpd --------------------------------
(***************************************************************************)
(* The web server of app_simple_webserver, httpd.c: one page, sent on each *)
(* connection that asks for it, from a pool of connection states that the  *)
(* events of the connections find through their appstate.                  *)
(*                                                                         *)
(* The XTCP server is external: it raises REQUEST_DATA for a send request, *)
(* and after data either SENT_DATA, which asks for more, or RESEND_DATA;   *)
(* conn.mss may be another one at each event.  The n-th byte of the page   *)
(* is n.                                                                   *)
(***************************************************************************)
EXTENDS Integers, Sequences, SequencesExt

CONSTANTS HttpConns,  \* connections, in the order in which they may come
          HttpSlots,  \* NUM_HTTPD_CONNECTIONS
          PageLen,    \* strlen(page)
          MssValues   \* values of conn.mss

ASSUME HttpConsts == /\ HttpConns \in Nat /\ HttpSlots \in Nat \ {0} /\ PageLen \in Nat
                     /\ MssValues \subseteq Nat \ {0}

VARIABLES connection_states, \* active, conn_id, dptr and prev_dptr (-1 for NULL)
          web                \* each connection, as the XTCP server has it

httpVars == <<connection_states, web>>

NULLPTR == -1
Page == [i \in 1 .. PageLen |-> i]

HttpInit ==
  /\ connection_states = [s \in 1 .. HttpSlots |->
        [active |-> FALSE, conn_id |-> 0, dptr |-> NULLPTR, prev |-> NULLPTR]]
  /\ web = [c \in 1 .. HttpConns |->
        [st |-> "unused", app |-> 0, wanted |-> FALSE, asked |-> FALSE, flight |-> <<>>, got |-> <<>>,
         close |-> FALSE, abort |-> FALSE]]

Hs(c) == connection_states[web[c].app]

\* httpd_init_state, on NEW_CONNECTION: the first slot that is not active, or an abort.
httpd_init_state(c) ==
  LET free == {s \in 1 .. HttpSlots : ~connection_states[s].active}
      i == CHOOSE s \in free : \A t \in free : s <= t
  IN  /\ web[c].st = "unused" /\ (c > 1 => web[c - 1].st # "unused")
      /\ IF free = {}
         THEN web' = [web EXCEPT ![c].st = "open", ![c].abort = TRUE] /\ UNCHANGED connection_states
         ELSE /\ web' = [web EXCEPT ![c].st = "open", ![c].app = i]
              /\ connection_states' = [connection_states EXCEPT
                   ![i].active = TRUE, ![i].conn_id = c, ![i].dptr = NULLPTR]

\* httpd_recv with parse_http_request: a GET asks for the page, once.
httpd_recv(c, get) ==
  /\ web[c].st = "open"
  /\ IF web[c].app = 0 \/ ~get THEN UNCHANGED httpVars
     ELSE IF Hs(c).dptr # NULLPTR THEN UNCHANGED httpVars
     ELSE /\ connection_states' = [connection_states EXCEPT ![web[c].app].dptr = 0]
          /\ web' = [web EXCEPT ![c].asked = TRUE, ![c].wanted = TRUE]

\* Slip: prev_dptr stays at the beginning of the page.
PrevIsFirst(hs, len) == [hs EXCEPT !.prev = 0, !.dptr = @ + len]
Advanced(hs, len) == [hs EXCEPT !.prev = hs.dptr, !.dptr = @ + len]

\* httpd_send on REQUEST_DATA and SENT_DATA: the next part of the page, or its end and a close.
httpd_send(c, mss) ==
  LET left == PageLen - Hs(c).dptr
      len == IF left > mss THEN mss ELSE left
      acked == [web[c] EXCEPT !.asked = FALSE, !.got = @ \o web[c].flight]
  IN  IF Hs(c).dptr = NULLPTR \/ left = 0
      THEN /\ web' = [web EXCEPT ![c] = [acked EXCEPT !.flight = <<>>, !.close = TRUE]]
           /\ UNCHANGED connection_states
      ELSE /\ web' = [web EXCEPT ![c] = [acked EXCEPT !.flight = SubSeq(Page, Hs(c).dptr + 1, Hs(c).dptr + len)]]
           /\ connection_states' = [connection_states EXCEPT ![web[c].app] = Advanced(@, len)]

RequestData4(c, mss) == /\ web[c].st = "open" /\ web[c].asked /\ web[c].flight = <<>> /\ httpd_send(c, mss)
SentData4(c, mss) == web[c].st = "open" /\ web[c].flight # <<>> /\ httpd_send(c, mss)
\* httpd_send on RESEND_DATA.
ResendData4(c) ==
  /\ web[c].st = "open" /\ web[c].flight # <<>>
  /\ web' = [web EXCEPT ![c].flight = SubSeq(Page, Hs(c).prev + 1, Hs(c).dptr)]
  /\ UNCHANGED connection_states

\* httpd_free_state, on CLOSED, ABORTED and TIMED_OUT; a local abort raises no event.
httpd_free_state(c) ==
  /\ web[c].st = "open" /\ web' = [web EXCEPT ![c].st = "closed", ![c].flight = <<>>]
  /\ connection_states' = [s \in 1 .. HttpSlots |->
       IF connection_states[s].conn_id = c THEN [connection_states[s] EXCEPT !.active = FALSE]
       ELSE connection_states[s]]
AbortedSilently(c) ==
  /\ web[c].st = "open" /\ web[c].abort /\ web' = [web EXCEPT ![c].st = "closed"]
  /\ UNCHANGED connection_states

\* httpd_handle_event
httpd_handle_event == \E c \in 1 .. HttpConns :
  \/ httpd_init_state(c) \/ httpd_free_state(c) \/ AbortedSilently(c) \/ ResendData4(c)
  \/ \E get \in BOOLEAN : httpd_recv(c, get)
  \/ \E mss \in MssValues : RequestData4(c, mss) \/ SentData4(c, mss)

-----------------------------------------------------------------------------
\* What a client of the web server gets is the page from its beginning, on each
\* connection by itself, however its segments are cut and sent again.
PageInOrder(c) ==
  /\ IsPrefix(web[c].got, web'[c].got)
  /\ IsPrefix(web'[c].got, IF web'[c].wanted THEN Page ELSE <<>>)
PagesServed == [][\A c \in 1 .. HttpConns : PageInOrder(c)]_httpVars

\* A connection that the server closes got the whole page, and connections that are open
\* do not share a slot of the pool (httpd_init_state, httpd_free_state).
PageIsWhole ==
  /\ \A c \in 1 .. HttpConns : web[c].close => web[c].got = Page
  /\ \A c, d \in 1 .. HttpConns :
       c # d /\ web[c].st = "open" /\ web[d].st = "open" /\ web[c].app # 0 => web[c].app # web[d].app
=============================================================================
