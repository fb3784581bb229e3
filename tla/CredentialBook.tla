--------------------------- MODULE CredentialBook ---------------------------
(***************************************************************************)
(* What the credentials promise their holders, told without accounts, tokens *)
(* or transactions.  A credential is taken once and stays with its holder     *)
(* until it is burnt; it is empty until somebody the holder asked, or an      *)
(* admin, writes to it; asking empties it.                                    *)
(***************************************************************************)
CONSTANTS
  Mints, Users, Issuers,
  By(_),        \* content -> who wrote it
  Contents,     \* what may be written
  Empty, Nobody, Burnt

VARIABLES
  holder,       \* mint -> its holder, Nobody before and Burnt after
  content,      \* mint -> what is written on it
  consent       \* pairs of a mint and an issuer its holder asked

bookVars == <<holder, content, consent>>

BookInit ==
  /\ holder = [m \in Mints |-> Nobody]
  /\ content = [m \in Mints |-> Empty]
  /\ consent = {}

Held(m) == holder[m] \in Users

Take(m) ==
  /\ holder[m] = Nobody
  /\ \E u \in Users : holder' = [holder EXCEPT ![m] = u]
  /\ UNCHANGED <<content, consent>>

\* One holder's credential at a time, though several issuers may be asked.
Ask(m) ==
  /\ Held(m)
  /\ \E i \in Issuers : consent' = consent \cup {<<m, i>>}
  /\ content' = [content EXCEPT ![m] = Empty]
  /\ UNCHANGED holder

Answer(m) ==
  /\ Held(m)
  /\ \E c \in Contents : <<m, By(c)>> \in consent /\ content' = [content EXCEPT ![m] = c]
  /\ UNCHANGED <<holder, consent>>

\* Whatever an admin writes, it is not an issuer's.
Correct(m) ==
  /\ Held(m)
  /\ \E c \in Contents : By(c) \notin Issuers /\ content' = [content EXCEPT ![m] = c]
  /\ UNCHANGED <<holder, consent>>

Burn(m) ==
  /\ Held(m)
  /\ holder' = [holder EXCEPT ![m] = Burnt]
  /\ content' = [content EXCEPT ![m] = Empty]
  /\ UNCHANGED consent

BookNext == \E m \in Mints : Take(m) \/ Ask(m) \/ Answer(m) \/ Correct(m) \/ Burn(m)

BookSpec == BookInit /\ [][BookNext]_bookVars
=============================================================================
