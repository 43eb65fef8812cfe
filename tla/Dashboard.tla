------------------------------ MODULE Dashboard ------------------------------
(***************************************************************************)
(* The dashboard's state in the server (server/routes/ui_api.py): sessions *)
(* with an expiry, and the ring of decisions, newest first, that a client  *)
(* reads page by page while decisions are recorded and cleared.            *)
(***************************************************************************)
EXTENDS Integers, Sequences, SequencesExt, FiniteSetsExt

CONSTANTS Tokens, TTL, MaxTime,    \* session tokens, _SESSION_TTL, bound of the clock
          RingSize, MaxDecisions,    \* max_size, bound of the counter
          Limits, MaxLimit           \* limits that clients ask for, the server's own

VARIABLES now, sessions,   \* the clock, _sessions
          used, ended,     \* tokens handed out, those logged out or refused
          ring, counter,   \* DecisionLog._entries and _counter
          pager            \* the client: its limit and next offset, ids seen, ids at its start

sessionVars == <<now, sessions, used, ended>>
ringVars == <<ring, counter, pager>>
vars == <<sessionVars, ringVars>>

NoPager == [reading |-> FALSE, done |-> FALSE, limit |-> MaxLimit, offset |-> 0, seen |-> {}, first |-> {}]

Init ==
  /\ now = 0 /\ sessions = <<>> /\ used = {} /\ ended = {}
  /\ ring = <<>> /\ counter = 0 /\ pager = NoPager

Without(t) == [u \in DOMAIN sessions \ {t} |-> sessions[u]]

\* time.time() also goes back, when the clock of the host is set.
Tick == now' \in (0..MaxTime) \ {now} /\ UNCHANGED <<sessions, used, ended, ringVars>>

\* ui_login with the right credentials; token_urlsafe never repeats one
Login(t) ==
  /\ t \notin used /\ used' = used \cup {t}
  /\ sessions' = [u \in DOMAIN sessions \cup {t} |-> IF u = t THEN now + TTL ELSE sessions[u]]
  /\ UNCHANGED <<now, ended, ringVars>>

Valid(t) == t \in DOMAIN sessions /\ sessions[t] >= now

\* check_ui_session: a session that has expired is removed when it is asked about
Validate(t) ==
  /\ t \in used
  /\ sessions' = IF Valid(t) THEN sessions ELSE Without(t)
  /\ ended' = IF Valid(t) THEN ended ELSE ended \cup {t}
  /\ UNCHANGED <<now, used, ringVars>>

\* Mutant: the cookie is deleted and the session is not.
LogoutOfCookie(t) ==
  /\ t \in used /\ ended' = ended \cup {t}
  /\ UNCHANGED <<now, used, sessions, ringVars>>

Logout(t) ==
  /\ t \in used /\ sessions' = Without(t) /\ ended' = ended \cup {t}
  /\ UNCHANGED <<now, used, ringVars>>

-----------------------------------------------------------------------------
\* Mutant: the oldest entry comes first.
AppendedOldestFirst(entries, id) ==
  LET all == Append(entries, id)
  IN IF Len(all) > RingSize THEN Tail(all) ELSE all

\* deque.appendleft: a full ring drops its last entry
Appended(entries, id) == SubSeq(<<id>> \o entries, 1, Min({RingSize, Len(entries) + 1}))

\* record, called for every ad-hoc query that succeeds or fails
Record ==
  /\ counter < MaxDecisions /\ counter' = counter + 1
  /\ ring' = Appended(ring, counter')
  /\ UNCHANGED <<pager, sessionVars>>

Clear == ring # <<>> /\ ring' = <<>> /\ UNCHANGED <<counter, pager, sessionVars>>

\* GET /v1/ui/decisions?limit=...&offset=...: the client asks for page after page until one
\* is empty, and steps by its limit, although a page is never longer than MaxLimit.
Page(limit) ==
  /\ ~pager.done /\ (pager.reading => limit = pager.limit)
  /\ LET page == SubSeq(ring, pager.offset + 1, Min({pager.offset + Min({limit, MaxLimit}), Len(ring)}))
     IN pager' = [reading |-> TRUE, done |-> page = <<>>, limit |-> limit, offset |-> pager.offset + limit,
                  seen |-> pager.seen \cup Range(page),
                  first |-> IF pager.reading THEN pager.first ELSE Range(ring)]
  /\ UNCHANGED <<ring, counter, sessionVars>>

PageAgain == pager.done /\ pager' = NoPager /\ UNCHANGED <<ring, counter, sessionVars>>

-----------------------------------------------------------------------------
SessionNext == Tick \/ \E t \in Tokens : Login(t) \/ Validate(t) \/ Logout(t)
RingNext == Record \/ Clear \/ PageAgain \/ \E limit \in Limits : Page(limit)

\* A session that was logged out or has once been refused is never valid again, even when
\* the clock is set back (_validate_session, _invalidate_session).
SessionsEnd == \A t \in ended : ~Valid(t)

\* A client that pages to the end, with a limit that the server grants, has seen every
\* decision that was there when it began and is still there: records meanwhile only show it
\* entries twice (get_entries, appendleft).
PagingMissesNothing ==
  pager.done /\ pager.limit <= MaxLimit => pager.first \cap Range(ring) \subseteq pager.seen
=============================================================================
