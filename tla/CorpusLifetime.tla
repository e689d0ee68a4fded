---------------------------- MODULE CorpusLifetime ----------------------------
(***************************************************************************)
(* What the JNI layer promises about native corpora (the lifetime contract *)
(* at the top of fast_code_embed_jni.c): a corpus is used only while it is *)
(* open, a close keeps new users out and waits for those inside, and the   *)
(* corpus is freed exactly once, after the last of them has left.          *)
(***************************************************************************)
CONSTANTS Corpora, Threads

VARIABLES
  state,   \* state[c]: "none", "open", "closing" or "freed"
  users    \* users[c]: the threads inside a call on c

vars == <<state, users>>

Init ==
  /\ state = [c \in Corpora |-> "none"]
  /\ users = [c \in Corpora |-> {}]

Create(c) ==
  /\ state[c] = "none"
  /\ state' = [state EXCEPT ![c] = "open"]
  /\ UNCHANGED users

(* The handle table is full: the corpus is given back at once. *)
Refuse(c) ==
  /\ state[c] = "none"
  /\ state' = [state EXCEPT ![c] = "freed"]
  /\ UNCHANGED users

Begin(t, c) ==
  /\ state[c] = "open" /\ t \notin users[c]
  /\ users' = [users EXCEPT ![c] = @ \union {t}]
  /\ UNCHANGED state

End(t, c) ==
  /\ t \in users[c]
  /\ users' = [users EXCEPT ![c] = @ \ {t}]
  /\ UNCHANGED state

Close(c) ==
  /\ state[c] = "open"
  /\ state' = [state EXCEPT ![c] = "closing"]
  /\ UNCHANGED users

Free(c) ==
  /\ state[c] = "closing" /\ users[c] = {}
  /\ state' = [state EXCEPT ![c] = "freed"]
  /\ UNCHANGED users

Next ==
  \E c \in Corpora :
    \/ Create(c) \/ Refuse(c) \/ Close(c) \/ Free(c)
    \/ \E t \in Threads : Begin(t, c) \/ End(t, c)

(* Calls end, and a closing corpus that nobody is inside is freed. *)
Fairness ==
  \A c \in Corpora : WF_vars(Free(c)) /\ \A t \in Threads : WF_vars(End(t, c))

Safety == Init /\ [][Next]_vars

Spec == Safety /\ Fairness
===============================================================================
