---------------------------- MODULE ExpiringMap ----------------------------
(***************************************************************************)
(* What a cache of go-cache promises: a map whose entries are there until  *)
(* their time has passed and not a moment longer, each operation of which  *)
(* takes effect at one instant between its call and its return, and tells  *)
(* its caller what it found at that instant.                               *)
(***************************************************************************)
EXTENDS Integers

CONSTANTS
  Keys, Clients,
  Never,       \* the expiration of what does not expire
  None,        \* no call
  Due(_, _),   \* when something stored at a time for a duration expires
  Sum(_, _)    \* a number with an amount added

VARIABLES
  now,
  live,  \* the entries: [object, expiration]
  call,  \* what each client is waiting for
  told   \* who returned last, and with which answer

mapVars == <<now, live, call, told>>

Say(word) == [type |-> word, number |-> 0]
Entry(x, t) == [object |-> x, expiration |-> t]
Lasts(e, t) == e.expiration = Never \/ e.expiration >= t
Bind(k, e) == [j \in DOMAIN live \cup {k} |-> IF j = k THEN e ELSE live[j]]
Only(K) == [k \in DOMAIN live \cap K |-> live[k]]

Init ==
  /\ now = 0 /\ \A k \in DOMAIN live : Lasts(live[k], now)
  /\ call = [p \in Clients |-> None] /\ told = <<>>

Tick ==
  /\ now' = now + 1
  /\ live' = Only({k \in DOMAIN live : Lasts(live[k], now')})
  /\ told' = told
  /\ \A p \in Clients : call[p] # None => call'[p] = call[p]

Call(p) ==
  /\ call[p] = None /\ call'[p] # None
  /\ call' = [call EXCEPT ![p] = call'[p]]
  /\ UNCHANGED <<now, live, told>>

Returns(p, answer) ==
  /\ call' = [call EXCEPT ![p] = None]
  /\ told' = <<p, answer>>
  /\ now' = now

\* Set always, Add for a key that is free, Replace for one that is bound.
Put(p) ==
  LET c == call[p]
      refused == \/ c.op = "Add" /\ c.key \in DOMAIN live
                 \/ c.op = "Replace" /\ c.key \notin DOMAIN live
  IN  /\ c.op \in {"Set", "Add", "Replace"}
      /\ Returns(p, IF refused THEN Say("refused") ELSE Say("done"))
      /\ live' = IF refused THEN live ELSE Bind(c.key, Entry(c.object, Due(now, c.ttl)))

Get(p) ==
  LET k == call[p].key
  IN  /\ call[p].op = "Get"
      /\ Returns(p, IF k \in DOMAIN live THEN live[k].object ELSE Say("missing"))
      /\ live' = live

\* An entry changes its number, not its type and not its time.
Change(p) ==
  LET c == call[p]
      refused == c.key \notin DOMAIN live \/ live[c.key].object.type \notin c.types
      x == Sum(live[c.key].object, c.by)
  IN  /\ c.op = "Increment"
      /\ Returns(p, IF refused THEN Say("refused") ELSE x)
      /\ live' = IF refused THEN live ELSE [live EXCEPT ![c.key].object = x]

Delete(p) ==
  /\ call[p].op = "Delete"
  /\ Returns(p, Say("done")) /\ live' = Only(Keys \ {call[p].key})

\* What has expired is not here any more.
DeleteExpired(p) ==
  /\ call[p].op = "DeleteExpired"
  /\ Returns(p, Say("done")) /\ live' = live

\* Flush forgets every key once, at one instant or part by part.
Flush(p) ==
  /\ call[p].op = "Flush"
  /\ \E part \in SUBSET call[p].left :
       /\ live' = Only(Keys \ part)
       /\ \/ part = call[p].left /\ Returns(p, Say("done"))
          \/ call' = [call EXCEPT ![p].left = @ \ part] /\ UNCHANGED <<now, told>>

\* Load: what is there already wins.
Merge(p) ==
  LET c == call[p]
  IN  /\ c.op = "Load"
      /\ Returns(p, Say("done"))
      /\ live' = IF c.key \notin DOMAIN live /\ Lasts(c.entry, now) THEN Bind(c.key, c.entry)
                 ELSE live

Walk(p) ==
  /\ call[p].op = "Save"
  /\ Returns(p, Say("done")) /\ live' = live

Next ==
  \/ Tick
  \/ \E p \in Clients :
       \/ Call(p)
       \/ /\ call[p] # None
          /\ \/ Put(p) \/ Get(p) \/ Change(p) \/ Merge(p) \/ Walk(p)
             \/ Delete(p) \/ DeleteExpired(p) \/ Flush(p)

Spec == Init /\ [][Next]_mapVars
=============================================================================
