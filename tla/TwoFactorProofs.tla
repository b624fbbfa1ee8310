-------------------------- MODULE TwoFactorProofs --------------------------
(***************************************************************************)
(* Challenges, TOTP codes and backup codes, for any number of requests and *)
(* challenges, any limit and any times to live.  The cache has no          *)
(* transactions, so what a request read may be out of date when it writes: *)
(* the invariant says what an entry counts as long as nobody overlapped,   *)
(* and that the account row needs no such proviso.                         *)
(***************************************************************************)
EXTENDS TwoFactor, TLAPS

\* The code was accepted, and for a backup code the row is locked.
Passed == {"remember", "discard", "commit"}

\* What a request holds at each point.
RequestInv(r) ==
    /\ pc[r] = "idle" => challenge[r] = None /\ code[r] = Wrong
    /\ pc[r] # "idle" => challenge[r] \in issued
    /\ pc[r] = "update" => code[r] \in Backup \ known[r]
    /\ pc[r] \in Passed => code[r] \in Codes
    /\ pc[r] \in Passed /\ code[r] \in Backup => writer = r /\ code[r] \notin spent
    /\ writer = r => pc[r] \in Passed /\ code[r] \in Backup

\* A backup code that earned a session is off the account row.
BackupInv == \A c \in Backup : accepted[c] <= 1 /\ (accepted[c] = 1 => c \in spent)

\* What two requests present at a time is contested.
ApartInv ==
    \A r, q \in Requests : r # q =>
        /\ challenge[r] = challenge[q] /\ challenge[r] # None => challenge[r] \in contested
        /\ code[r] = code[q] /\ code[r] # Wrong => code[r] \in contested

\* A challenge that was not handed out has no past.
FreshInv == \A h \in Challenges \ issued : wrong[h] = 0 /\ completed[h] = 0

\* The entry of an uncontested challenge counts all its wrong codes and none
\* of its sessions, and whoever presents the challenge has read as much.
EntryInv(h) ==
    /\ wrong[h] <= MAX_ATTEMPTS /\ completed[h] <= 1
    /\ Present(h) => completed[h] = 0 /\ wrong[h] = attempts[h]
    /\ \A r \in Requests : challenge[r] = h =>
          /\ completed[h] = 0 /\ wrong[h] = seen[r]
          /\ pc[r] = "commit" => ~Present(h)

Inv ==
    /\ TypeOK /\ BackupInv /\ ApartInv /\ FreshInv
    /\ \A r \in Requests : RequestInv(r)
    /\ \A h \in Challenges \ contested : EntryInv(h)

\* An uncontested TOTP code that earned a session, or is about to, is
\* remembered for as long as it verifies.
CodeInv(c) ==
    /\ accepted[c] <= 1
    /\ accepted[c] = 1 => memory[c] + clock > c + 1
    /\ \A r \in Requests : code[r] = c =>
          /\ pc[r] \in Passed => accepted[c] = 0
          /\ pc[r] = "remember" => c <= clock + 1
          /\ pc[r] \in {"discard", "commit"} => memory[c] + clock > c + 1

TimeInv == \A c \in Totp \ contested : CodeInv(c)

Places == {"idle", "read", "loaded", "failing", "update", "remember", "discard", "commit"}

\* Everything about h and its readers stays as it is.
SameEntry(h) ==
    /\ ttl'[h] = ttl[h] /\ attempts'[h] = attempts[h]
    /\ wrong'[h] = wrong[h] /\ completed'[h] = completed[h]

-----------------------------------------------------------------------------
(***************************************************************************)
(* The end of a request.                                                   *)
(***************************************************************************)

\* Done takes everything from r and nothing from the others.
LEMMA DoneFacts ==
    ASSUME TypeOK, NEW r \in Requests, Done(r)
    PROVE  /\ pc' \in [Requests -> Places] /\ known' \in [Requests -> SUBSET Backup]
           /\ challenge' \in [Requests -> issued \cup {None}]
           /\ code' \in [Requests -> Codes \cup {Wrong}]
           /\ seen' \in [Requests -> 0..(MAX_ATTEMPTS - 1)]
           /\ writer' \in Requests \cup {None} /\ writer' # r
           /\ pc'[r] = "idle" /\ challenge'[r] = None /\ code'[r] = Wrong
           /\ \A q \in Requests \ {r} :
                 /\ pc'[q] = pc[q] /\ challenge'[q] = challenge[q] /\ code'[q] = code[q]
                 /\ seen'[q] = seen[q] /\ known'[q] = known[q]
                 /\ writer' = q <=> writer = q
<1>. USE TwoFactorAssumption
<1>1. /\ pc' \in [Requests -> Places] /\ known' \in [Requests -> SUBSET Backup]
      /\ challenge' \in [Requests -> issued \cup {None}]
      /\ code' \in [Requests -> Codes \cup {Wrong}]
  BY DEF Done, TypeOK, Places
<1>2. seen' \in [Requests -> 0..(MAX_ATTEMPTS - 1)]
  BY DEF Done, TypeOK
<1>3. writer' \in Requests \cup {None} /\ writer' # r
  BY DEF Done, TypeOK
<1>4. pc'[r] = "idle" /\ challenge'[r] = None /\ code'[r] = Wrong
  BY DEF Done, TypeOK
<1>5. \A q \in Requests \ {r} :
          /\ pc'[q] = pc[q] /\ challenge'[q] = challenge[q] /\ code'[q] = code[q]
          /\ seen'[q] = seen[q] /\ known'[q] = known[q]
          /\ writer' = q <=> writer = q
  BY DEF Done, TypeOK
<1> QED
  BY <1>1, <1>2, <1>3, <1>4, <1>5

\* A request that ends preserves the invariant if what it last did is right by
\* its own challenge.
LEMMA EndInv ==
    ASSUME Inv, TypeOK', BackupInv', NEW r \in Requests, pc[r] # "idle", Done(r),
           issued' = issued, contested' = contested,
           spent' = spent \/ writer = r,
           \A h \in Challenges \ {challenge[r]} : SameEntry(h),
           challenge[r] \notin contested =>
              /\ wrong'[challenge[r]] <= MAX_ATTEMPTS /\ completed'[challenge[r]] <= 1
              /\ ttl'[challenge[r]] > 0 =>
                    /\ completed'[challenge[r]] = 0
                    /\ wrong'[challenge[r]] = attempts'[challenge[r]]
    PROVE  Inv'
<1>. USE TwoFactorAssumption
<1>. DEFINE Others == Requests \ {r}
<1>1. /\ pc'[r] = "idle" /\ challenge'[r] = None /\ code'[r] = Wrong /\ writer' # r
      /\ \A q \in Others :
            /\ pc'[q] = pc[q] /\ challenge'[q] = challenge[q] /\ code'[q] = code[q]
            /\ seen'[q] = seen[q] /\ known'[q] = known[q]
            /\ writer' = q <=> writer = q
  BY DoneFacts DEF Inv
<1>2. ASSUME NEW q \in Requests
      PROVE  RequestInv(q)'
  <2>1. CASE q = r
    BY <1>1, <2>1 DEF RequestInv, Passed
  <2>2. CASE q # r
    <3>1. writer = q => spent' = spent
      BY <2>2
    <3> QED
      BY <1>1, <2>2, <3>1 DEF Inv, RequestInv
  <2> QED
    BY <2>1, <2>2
<1>3. ApartInv'
  BY <1>1 DEF Inv, ApartInv
<1>4. challenge[r] \in issued /\ challenge[r] \in Challenges
  BY DEF Inv, RequestInv, TypeOK
<1>5. FreshInv'
  BY <1>4 DEF Inv, FreshInv, SameEntry
<1>6. ASSUME NEW h \in Challenges \ contested
      PROVE  EntryInv(h)'
  <2>1. EntryInv(h)
    BY <1>6 DEF Inv
  <2>2. CASE h = challenge[r]
    <3>1. \A q \in Requests : challenge'[q] # h
      BY <1>1, <1>4, <1>6, <2>2 DEF Inv, ApartInv
    <3> QED
      BY <1>6, <2>2, <3>1 DEF EntryInv, Present
  <2>3. CASE h # challenge[r]
    <3>1. SameEntry(h) /\ challenge'[r] # h
      BY <1>1, <1>6, <2>3
    <3> QED
      BY <1>1, <2>1, <3>1 DEF EntryInv, Present, SameEntry
  <2> QED
    BY <2>2, <2>3
<1> QED
  BY <1>2, <1>3, <1>5, <1>6 DEF Inv

\* AccountGone throws the challenge away.
LEMMA AccountGoneInv ==
    ASSUME Inv, NEW r \in Requests, AccountGone(r)
    PROVE  Inv'
<1>. USE TwoFactorAssumption
<1>1. /\ pc[r] # "idle" /\ Done(r)
      /\ attempts' = [attempts EXCEPT ![challenge[r]] = 0]
      /\ ttl' = [ttl EXCEPT ![challenge[r]] = 0]
      /\ clock' = clock /\ memory' = memory /\ spent' = spent /\ issued' = issued
      /\ wrong' = wrong /\ completed' = completed /\ accepted' = accepted
      /\ contested' = contested
  BY DEF AccountGone, discard, history
<1>2. challenge[r] \in issued /\ challenge[r] \in Challenges
  BY <1>1 DEF Inv, RequestInv, TypeOK
<1>3. TypeOK'
  BY <1>1, <1>2, DoneFacts DEF Inv, TypeOK, Places
<1>4. BackupInv'
  BY <1>1 DEF Inv, BackupInv
<1>5. ttl'[challenge[r]] = 0 /\ \A h \in Challenges \ {challenge[r]} : SameEntry(h)
  BY <1>1, <1>2 DEF Inv, TypeOK, SameEntry
<1>6. challenge[r] \notin contested =>
          wrong'[challenge[r]] <= MAX_ATTEMPTS /\ completed'[challenge[r]] <= 1
  BY <1>1, <1>2 DEF Inv, EntryInv
<1> QED
  BY <1>1, <1>3, <1>4, <1>5, <1>6, EndInv

\* A wrong code is counted on top of the count the request read.
LEMMA RecordFailureInv ==
    ASSUME Inv, NEW r \in Requests, record_failure(r)
    PROVE  Inv'
<1>. USE TwoFactorAssumption
<1>. DEFINE h == challenge[r]
            n == seen[r] + 1
<1>1. /\ pc[r] # "idle" /\ Done(r)
      /\ \/ n >= MAX_ATTEMPTS /\ ttl' = [ttl EXCEPT ![h] = 0]
            /\ attempts' = [attempts EXCEPT ![h] = 0]
         \/ ~(n >= MAX_ATTEMPTS) /\ ttl' = [ttl EXCEPT ![h] = CHALLENGE_TTL]
            /\ attempts' = [attempts EXCEPT ![h] = n]
      /\ wrong' = [wrong EXCEPT ![h] = IF @ < MAX_ATTEMPTS + 1 THEN @ + 1 ELSE @]
      /\ clock' = clock /\ memory' = memory /\ spent' = spent /\ issued' = issued
      /\ completed' = completed /\ accepted' = accepted /\ contested' = contested
  BY DEF record_failure, discard, Put, is_exhausted, CountTo
<1>2. h \in issued /\ h \in Challenges /\ seen[r] \in 0..(MAX_ATTEMPTS - 1)
  BY <1>1 DEF Inv, RequestInv, TypeOK
<1>3. TypeOK'
  <2>1. ttl' \in [Challenges -> 0..CHALLENGE_TTL] /\ \A g \in Challenges \ issued' : ttl'[g] = 0
    BY <1>1, <1>2 DEF Inv, TypeOK
  <2>2. attempts' \in [Challenges -> 0..(MAX_ATTEMPTS - 1)]
    BY <1>1, <1>2 DEF Inv, TypeOK
  <2>3. wrong' \in [Challenges -> 0..(MAX_ATTEMPTS + 1)]
    BY <1>1, <1>2 DEF Inv, TypeOK
  <2> QED
    BY <1>1, <2>1, <2>2, <2>3, DoneFacts DEF Inv, TypeOK, Places
<1>4. BackupInv'
  BY <1>1 DEF Inv, BackupInv
<1>5. \A g \in Challenges \ {h} : SameEntry(g)
  BY <1>1, <1>2 DEF Inv, TypeOK, SameEntry
<1>6. ASSUME h \notin contested
      PROVE  /\ wrong'[h] <= MAX_ATTEMPTS /\ completed'[h] <= 1
             /\ ttl'[h] > 0 => completed'[h] = 0 /\ wrong'[h] = attempts'[h]
  <2>1. completed[h] = 0 /\ wrong[h] = seen[r]
    BY <1>2, <1>6 DEF Inv, EntryInv
  <2>2. wrong'[h] = n /\ completed'[h] = 0
    BY <1>1, <1>2, <2>1 DEF Inv, TypeOK
  <2>3. ttl'[h] > 0 => attempts'[h] = n
    BY <1>1, <1>2 DEF Inv, TypeOK
  <2> QED
    BY <1>2, <2>2, <2>3
<1> HIDE DEF h, n
<1>7. h = challenge[r]
  BY DEF h
<1> QED
  BY <1>1, <1>3, <1>4, <1>5, <1>6, <1>7, EndInv

\* The commit makes a session; of a backup code it is the only one, since the
\* request holds the row and the code is still on it.
LEMMA CommitInv ==
    ASSUME Inv, NEW r \in Requests, commit(r)
    PROVE  Inv'
<1>. USE TwoFactorAssumption
<1>. DEFINE h == challenge[r]
            c == code[r]
<1>1. /\ pc[r] = "commit" /\ pc[r] # "idle" /\ Done(r)
      /\ spent' = IF writer = r THEN spent \cup {c} ELSE spent
      /\ completed' = [completed EXCEPT ![h] = IF @ < 2 THEN @ + 1 ELSE @]
      /\ accepted' = [accepted EXCEPT ![c] = IF @ < 2 THEN @ + 1 ELSE @]
      /\ clock' = clock /\ ttl' = ttl /\ attempts' = attempts /\ memory' = memory
      /\ issued' = issued /\ wrong' = wrong /\ contested' = contested
  BY DEF commit, CountTo, cacheVars
<1>2. h \in issued /\ h \in Challenges /\ c \in Codes
  BY <1>1 DEF Inv, RequestInv, TypeOK, Passed
<1>3. writer = r => c \in Backup
  BY DEF Inv, RequestInv
<1>4. TypeOK'
  <2>1. completed' \in [Challenges -> 0..2]
    BY <1>1, <1>2 DEF Inv, TypeOK
  <2>2. accepted' \in [Codes -> 0..2]
    BY <1>1, <1>2 DEF Inv, TypeOK
  <2>3. spent' \subseteq Backup
    BY <1>1, <1>3 DEF Inv, TypeOK
  <2> QED
    BY <1>1, <2>1, <2>2, <2>3, DoneFacts DEF Inv, TypeOK, Places
<1>5. BackupInv'
  <2> SUFFICES ASSUME NEW b \in Backup
               PROVE  accepted'[b] <= 1 /\ (accepted'[b] = 1 => b \in spent')
    BY DEF BackupInv
  <2>1. accepted[b] \in 0..2 /\ accepted[b] <= 1 /\ (accepted[b] = 1 => b \in spent)
    BY DEF Inv, TypeOK, BackupInv, Codes
  <2>2. CASE b = c
    <3>1. writer = r /\ c \notin spent
      BY <1>1, <2>2 DEF Inv, RequestInv, Passed
    <3>2. accepted'[b] = 1
      BY <1>1, <1>2, <2>1, <2>2, <3>1 DEF Inv, TypeOK
    <3> QED
      BY <1>1, <2>2, <3>1, <3>2
  <2>3. CASE b # c
    <3>1. accepted'[b] = accepted[b]
      BY <1>1, <2>3 DEF Inv, TypeOK, Codes
    <3> QED
      BY <1>1, <2>1, <3>1
  <2> QED
    BY <2>2, <2>3
<1>6. \A g \in Challenges \ {h} : SameEntry(g)
  BY <1>1, <1>2 DEF Inv, TypeOK, SameEntry
<1>7. ASSUME h \notin contested
      PROVE  wrong'[h] <= MAX_ATTEMPTS /\ completed'[h] <= 1 /\ ~(ttl'[h] > 0)
  <2>1. completed[h] = 0 /\ ~(ttl[h] > 0) /\ wrong[h] <= MAX_ATTEMPTS
    BY <1>1, <1>2, <1>7 DEF Inv, EntryInv, Present
  <2>2. completed'[h] = 1
    BY <1>1, <1>2, <2>1 DEF Inv, TypeOK
  <2> QED
    BY <1>1, <2>1, <2>2
<1>8. spent' = spent \/ writer = r
  BY <1>1
<1> HIDE DEF h, c
<1>9. h = challenge[r]
  BY DEF h
<1> QED
  BY <1>1, <1>4, <1>5, <1>6, <1>7, <1>8, <1>9, EndInv

\* A rollback leaves what the cache was told.
LEMMA RollbackInv ==
    ASSUME Inv, NEW r \in Requests, Rollback(r)
    PROVE  Inv'
<1>1. /\ pc[r] # "idle" /\ Done(r)
      /\ clock' = clock /\ ttl' = ttl /\ attempts' = attempts /\ memory' = memory
      /\ spent' = spent /\ issued' = issued /\ wrong' = wrong /\ completed' = completed
      /\ accepted' = accepted /\ contested' = contested
  BY DEF Rollback, cacheVars, history
<1>2. challenge[r] \in Challenges
  BY <1>1 DEF Inv, RequestInv, TypeOK
<1>3. TypeOK'
  BY <1>1, DoneFacts DEF Inv, TypeOK, Places
<1>4. BackupInv'
  BY <1>1 DEF Inv, BackupInv
<1>5. \A h \in Challenges \ {challenge[r]} : SameEntry(h)
  BY <1>1 DEF SameEntry
<1>6. challenge[r] \notin contested =>
        /\ wrong'[challenge[r]] <= MAX_ATTEMPTS /\ completed'[challenge[r]] <= 1
        /\ ttl'[challenge[r]] > 0 => /\ completed'[challenge[r]] = 0
                                     /\ wrong'[challenge[r]] = attempts'[challenge[r]]
  BY <1>1, <1>2 DEF Inv, EntryInv, Present
<1> QED
  BY <1>1, <1>3, <1>4, <1>5, <1>6, EndInv

-----------------------------------------------------------------------------
(***************************************************************************)
(* The steps within a request.                                             *)
(***************************************************************************)

\* A request that goes on preserves the invariant: it takes no entry for more
\* than it is, and its own next point is in order.
LEMMA MoveInv ==
    ASSUME Inv, TypeOK', NEW r \in Requests, pc[r] # "idle",
           NEW w \in Places \ {"idle"}, pc' = [pc EXCEPT ![r] = w],
           challenge' = challenge, code' = code, seen' = seen, spent' = spent,
           issued' = issued, wrong' = wrong, completed' = completed, accepted' = accepted,
           contested' = contested,
           \A q \in Requests \ {r} : known'[q] = known[q] /\ (writer' = q <=> writer = q),
           \A h \in Challenges : \/ ttl'[h] = 0
                                 \/ ttl'[h] = ttl[h] /\ attempts'[h] = attempts[h],
           w = "commit" => ttl'[challenge[r]] = 0,
           RequestInv(r)'
    PROVE  Inv'
<1>1. pc'[r] = w /\ \A q \in Requests \ {r} : pc'[q] = pc[q]
  BY DEF Inv, TypeOK
<1>2. BackupInv' /\ ApartInv' /\ FreshInv'
  BY DEF Inv, BackupInv, ApartInv, FreshInv
<1>3. \A q \in Requests \ {r} : RequestInv(q)'
  BY <1>1 DEF Inv, RequestInv
<1>4. ASSUME NEW h \in Challenges \ contested
      PROVE  EntryInv(h)'
  <2>1. EntryInv(h)
    BY <1>4 DEF Inv
  <2>2. ttl'[h] > 0 => ttl[h] > 0 /\ attempts'[h] = attempts[h]
    BY <1>4
  <2>3. \A q \in Requests : challenge[q] = h /\ pc'[q] = "commit" => ~(ttl'[h] > 0)
    BY <1>1, <2>1, <2>2 DEF EntryInv, Present
  <2> QED
    BY <2>1, <2>2, <2>3 DEF EntryInv, Present
<1> QED
  BY <1>2, <1>3, <1>4 DEF Inv

\* A request enters with what it read; whoever presents the same is found out.
LEMMA ReadInv ==
    ASSUME Inv, NEW r \in Requests, NEW h \in Challenges, NEW c \in Codes \cup {Wrong},
           read(r, h, c)
    PROVE  Inv'
<1>. USE TwoFactorAssumption
<1>1. /\ ttl[h] > 0 /\ pc[r] = "idle"
      /\ pc' = [pc EXCEPT ![r] = "read"]
      /\ challenge' = [challenge EXCEPT ![r] = h]
      /\ code' = [code EXCEPT ![r] = c]
      /\ seen' = [seen EXCEPT ![r] = attempts[h]]
      /\ contested' = contested \cup (Contested(r, h, c) \ {Wrong})
      /\ clock' = clock /\ ttl' = ttl /\ attempts' = attempts /\ memory' = memory
      /\ spent' = spent /\ writer' = writer /\ known' = known
      /\ issued' = issued /\ wrong' = wrong /\ completed' = completed /\ accepted' = accepted
  BY DEF read, Enter, Present, cacheVars, rowVars
<1>2. h \in issued
  BY <1>1 DEF Inv, TypeOK
<1>3. /\ pc'[r] = "read" /\ challenge'[r] = h /\ code'[r] = c /\ seen'[r] = attempts[h]
      /\ \A q \in Requests \ {r} : /\ pc'[q] = pc[q] /\ challenge'[q] = challenge[q]
                                   /\ code'[q] = code[q] /\ seen'[q] = seen[q]
  BY <1>1 DEF Inv, TypeOK
<1>4. contested \subseteq contested' /\ contested' \subseteq contested \cup ({h, c} \ {Wrong})
  BY <1>1 DEF Contested
<1>5. ASSUME NEW q \in Requests \ {r}
      PROVE  /\ challenge[q] = h => h \in contested'
             /\ code[q] = c /\ c # Wrong => c \in contested'
  <2>1. h # Wrong
    OBVIOUS
  <2>2. challenge[q] = h => h \in Contested(r, h, c)
    BY DEF Contested
  <2>3. code[q] = c => c \in Contested(r, h, c)
    BY DEF Contested
  <2> QED
    BY <1>1, <2>1, <2>2, <2>3
<1>6. TypeOK'
  <2>1. pc' \in [Requests -> Places] /\ challenge' \in [Requests -> issued' \cup {None}]
    BY <1>1, <1>2 DEF Inv, TypeOK, Places
  <2>2. code' \in [Requests -> Codes \cup {Wrong}]
    BY <1>1 DEF Inv, TypeOK
  <2>3. seen' \in [Requests -> 0..(MAX_ATTEMPTS - 1)]
    BY <1>1 DEF Inv, TypeOK
  <2>4. contested' \subseteq Challenges \cup Codes
    BY <1>4 DEF Inv, TypeOK
  <2> QED
    BY <1>1, <2>1, <2>2, <2>3, <2>4 DEF Inv, TypeOK, Places
<1>7. BackupInv' /\ FreshInv'
  BY <1>1 DEF Inv, BackupInv, FreshInv
<1>8. ApartInv'
  <2> SUFFICES ASSUME NEW p \in Requests, NEW q \in Requests, p # q
               PROVE  /\ challenge'[p] = challenge'[q] /\ challenge'[p] # None =>
                            challenge'[p] \in contested'
                      /\ code'[p] = code'[q] /\ code'[p] # Wrong => code'[p] \in contested'
    BY DEF ApartInv
  <2>1. CASE p = r
    BY <1>3, <1>5, <2>1
  <2>2. CASE q = r
    BY <1>3, <1>5, <2>2
  <2>3. CASE p # r /\ q # r
    BY <1>3, <1>4, <2>3 DEF Inv, ApartInv
  <2> QED
    BY <2>1, <2>2, <2>3
<1>9. \A q \in Requests : RequestInv(q)'
  BY <1>1, <1>2, <1>3 DEF Inv, RequestInv, Passed
<1>10. ASSUME NEW g \in Challenges \ contested'
       PROVE  EntryInv(g)'
  <2>1. EntryInv(g)
    BY <1>4, <1>10 DEF Inv
  <2>2. g = h => completed[g] = 0 /\ wrong[g] = attempts[h]
    BY <1>1, <2>1 DEF EntryInv, Present
  <2> QED
    BY <1>1, <1>3, <2>1, <2>2 DEF EntryInv, Present
<1> QED
  BY <1>6, <1>7, <1>8, <1>9, <1>10 DEF Inv

\* Loading the account takes a copy of the row.
LEMMA AcquireInv ==
    ASSUME Inv, NEW r \in Requests, acquire_by_id(r)
    PROVE  Inv'
<1>1. /\ pc[r] = "read" /\ pc' = [pc EXCEPT ![r] = "loaded"]
      /\ known' = [known EXCEPT ![r] = spent]
      /\ clock' = clock /\ ttl' = ttl /\ attempts' = attempts /\ memory' = memory
      /\ spent' = spent /\ writer' = writer
      /\ challenge' = challenge /\ code' = code /\ seen' = seen
      /\ issued' = issued /\ wrong' = wrong /\ completed' = completed /\ accepted' = accepted
      /\ contested' = contested
  BY DEF acquire_by_id, cacheVars, rowVars, history
<1>2. TypeOK'
  BY <1>1 DEF Inv, TypeOK
<1>3. pc'[r] = "loaded" /\ writer' # r
  BY <1>1 DEF Inv, TypeOK, RequestInv, Passed
<1>4. RequestInv(r)'
  BY <1>1, <1>3 DEF Inv, RequestInv, Passed
<1>5. \A q \in Requests \ {r} : known'[q] = known[q]
  BY <1>1 DEF Inv, TypeOK
<1> QED
  BY <1>1, <1>2, <1>4, <1>5, MoveInv DEF Places

\* A verdict on the code moves the request on and does nothing else.
LEMMA GotoInv ==
    ASSUME Inv, NEW r \in Requests, pc[r] = "loaded", NEW w \in {"remember", "update", "failing"},
           Goto(r, w), w = "remember" => code[r] \in Totp, w = "update" => code[r] \in Backup \ known[r]
    PROVE  Inv'
<1>1. /\ pc' = [pc EXCEPT ![r] = w]
      /\ clock' = clock /\ ttl' = ttl /\ attempts' = attempts /\ memory' = memory
      /\ spent' = spent /\ writer' = writer /\ known' = known
      /\ challenge' = challenge /\ code' = code /\ seen' = seen
      /\ issued' = issued /\ wrong' = wrong /\ completed' = completed /\ accepted' = accepted
      /\ contested' = contested
  BY DEF Goto, cacheVars, rowVars, requestVars, history
<1>2. TypeOK'
  BY <1>1 DEF Inv, TypeOK
<1>3. pc'[r] = w /\ writer # r
  BY <1>1 DEF Inv, TypeOK, RequestInv, Passed
<1>4. RequestInv(r)'
  BY <1>1, <1>3, TwoFactorAssumption DEF Inv, RequestInv, Passed, Codes
<1> QED
  BY <1>1, <1>2, <1>4, MoveInv DEF Places

\* A code is accepted as a TOTP code or as a backup code the copy of the row
\* still has.
LEMMA VerifiedInv ==
    ASSUME Inv, NEW r \in Requests, Verified(r) \/ Refused(r)
    PROVE  Inv'
<1>1. CASE Refused(r)
  BY <1>1, GotoInv DEF Refused
<1>2. CASE Verified(r) /\ verify_code(code[r])
  <2>1. pc[r] = "loaded" /\ Goto(r, "remember") /\ code[r] \in Totp
    BY <1>2 DEF Verified, verify_code
  <2> QED
    BY <2>1, GotoInv
<1>3. CASE Verified(r) /\ ~verify_code(code[r])
  <2>1. pc[r] = "loaded" /\ Goto(r, "update") /\ code[r] \in Backup \ known[r]
    BY <1>3 DEF Verified, verify_two_factor
  <2> QED
    BY <2>1, GotoInv
<1> QED
  BY <1>1, <1>2, <1>3

\* The version check: the copy of the row is the row, so the code is on it.
LEMMA UpdateInv ==
    ASSUME Inv, NEW r \in Requests, update(r)
    PROVE  Inv'
<1>. USE TwoFactorAssumption
<1>1. /\ pc[r] = "update" /\ writer = None /\ known[r] = spent
      /\ pc' = [pc EXCEPT ![r] = "remember"] /\ writer' = r
      /\ clock' = clock /\ ttl' = ttl /\ attempts' = attempts /\ memory' = memory
      /\ spent' = spent /\ known' = known
      /\ challenge' = challenge /\ code' = code /\ seen' = seen
      /\ issued' = issued /\ wrong' = wrong /\ completed' = completed /\ accepted' = accepted
      /\ contested' = contested
  BY DEF update, cacheVars, requestVars, history
<1>2. TypeOK'
  BY <1>1 DEF Inv, TypeOK
<1>3. pc'[r] = "remember"
  BY <1>1 DEF Inv, TypeOK
<1>4. RequestInv(r)'
  BY <1>1, <1>3 DEF Inv, RequestInv, Passed, Codes
<1> QED
  BY <1>1, <1>2, <1>4, MoveInv DEF Places

\* The code goes into the registry of used codes.
LEMMA RememberInv ==
    ASSUME Inv, NEW r \in Requests, remember(r)
    PROVE  Inv'
<1>. USE TwoFactorAssumption
<1>1. /\ pc[r] = "remember" /\ pc' = [pc EXCEPT ![r] = "discard"]
      /\ memory' = [memory EXCEPT ![code[r]] = CODE_MEMORY]
      /\ clock' = clock /\ ttl' = ttl /\ attempts' = attempts
      /\ spent' = spent /\ writer' = writer /\ known' = known
      /\ challenge' = challenge /\ code' = code /\ seen' = seen
      /\ issued' = issued /\ wrong' = wrong /\ completed' = completed /\ accepted' = accepted
      /\ contested' = contested
  BY DEF remember, rowVars, requestVars, history
<1>2. memory' \in [Codes -> 0..CODE_MEMORY]
  <2>1. CODE_MEMORY \in 0..CODE_MEMORY
    OBVIOUS
  <2>2. memory \in [Codes -> 0..CODE_MEMORY]
    BY DEF Inv, TypeOK
  <2> QED
    BY ONLY <1>1, <2>1, <2>2
<1>3. TypeOK'
  BY <1>1, <1>2 DEF Inv, TypeOK
<1>4. pc'[r] = "discard"
  BY <1>1 DEF Inv, TypeOK
<1>5. RequestInv(r)'
  BY <1>1, <1>4 DEF Inv, RequestInv, Passed
<1> QED
  BY <1>1, <1>3, <1>5, MoveInv DEF Places

\* The challenge is thrown away before the commit.
LEMMA DiscardUsedInv ==
    ASSUME Inv, NEW r \in Requests, DiscardUsed(r)
    PROVE  Inv'
<1>. USE TwoFactorAssumption
<1>1. /\ pc[r] = "discard" /\ pc' = [pc EXCEPT ![r] = "commit"]
      /\ attempts' = [attempts EXCEPT ![challenge[r]] = 0]
      /\ ttl' = [ttl EXCEPT ![challenge[r]] = 0]
      /\ clock' = clock /\ memory' = memory
      /\ spent' = spent /\ writer' = writer /\ known' = known
      /\ challenge' = challenge /\ code' = code /\ seen' = seen
      /\ issued' = issued /\ wrong' = wrong /\ completed' = completed /\ accepted' = accepted
      /\ contested' = contested
  BY DEF DiscardUsed, discard, rowVars, requestVars, history
<1>2. challenge[r] \in Challenges
  BY <1>1 DEF Inv, RequestInv, TypeOK
<1>3. TypeOK'
  <2>1. attempts' \in [Challenges -> 0..(MAX_ATTEMPTS - 1)]
    BY <1>1, <1>2 DEF Inv, TypeOK
  <2>2. ttl' \in [Challenges -> 0..CHALLENGE_TTL] /\ \A h \in Challenges \ issued' : ttl'[h] = 0
    BY <1>1, <1>2 DEF Inv, TypeOK
  <2> QED
    BY <1>1, <2>1, <2>2 DEF Inv, TypeOK
<1>4. pc'[r] = "commit" /\ ttl'[challenge[r]] = 0
  BY <1>1, <1>2 DEF Inv, TypeOK
<1>5. RequestInv(r)'
  BY <1>1, <1>4 DEF Inv, RequestInv, Passed
<1>6. \A h \in Challenges : ttl'[h] = 0 \/ (ttl'[h] = ttl[h] /\ attempts'[h] = attempts[h])
  BY <1>1, <1>2 DEF Inv, TypeOK
<1> QED
  BY <1>1, <1>3, <1>4, <1>5, <1>6, MoveInv DEF Places

-----------------------------------------------------------------------------
(***************************************************************************)
(* Challenges that come and time that goes.                                *)
(***************************************************************************)

\* A fresh challenge has no readers and no past.
LEMMA IssueInv ==
    ASSUME Inv, NEW h \in Challenges, issue(h)
    PROVE  Inv'
<1>. USE TwoFactorAssumption
<1>1. /\ h \notin issued /\ issued' = issued \cup {h}
      /\ attempts' = [attempts EXCEPT ![h] = 0]
      /\ ttl' = [ttl EXCEPT ![h] = CHALLENGE_TTL]
      /\ clock' = clock /\ memory' = memory /\ spent' = spent /\ writer' = writer
      /\ pc' = pc /\ challenge' = challenge /\ code' = code /\ seen' = seen /\ known' = known
      /\ wrong' = wrong /\ completed' = completed /\ accepted' = accepted
      /\ contested' = contested
  BY DEF issue, Put, rowVars, requestVars
<1>2. TypeOK'
  <2>1. attempts' \in [Challenges -> 0..(MAX_ATTEMPTS - 1)]
    BY <1>1 DEF Inv, TypeOK
  <2>2. ttl' \in [Challenges -> 0..CHALLENGE_TTL] /\ \A g \in Challenges \ issued' : ttl'[g] = 0
    BY <1>1 DEF Inv, TypeOK
  <2>3. challenge' \in [Requests -> issued' \cup {None}] /\ issued' \subseteq Challenges
    BY <1>1 DEF Inv, TypeOK
  <2> QED
    BY <1>1, <2>1, <2>2, <2>3 DEF Inv, TypeOK
<1>3. BackupInv' /\ ApartInv' /\ FreshInv'
  BY <1>1 DEF Inv, BackupInv, ApartInv, FreshInv
<1>4. \A r \in Requests : RequestInv(r)'
  BY <1>1 DEF Inv, RequestInv
<1>5. \A r \in Requests : challenge[r] # h
  BY <1>1 DEF Inv, TypeOK
<1>6. ASSUME NEW g \in Challenges \ contested
      PROVE  EntryInv(g)'
  <2>1. EntryInv(g)
    BY <1>6 DEF Inv
  <2>2. CASE g = h
    <3>1. attempts'[h] = 0 /\ wrong[h] = 0 /\ completed[h] = 0
      BY <1>1 DEF Inv, TypeOK, FreshInv
    <3> QED
      BY <1>1, <1>5, <2>2, <3>1 DEF EntryInv
  <2>3. CASE g # h
    <3>1. attempts'[g] = attempts[g] /\ ttl'[g] = ttl[g]
      BY <1>1, <1>6, <2>3 DEF Inv, TypeOK
    <3> QED
      BY <1>1, <2>1, <3>1 DEF EntryInv, Present
  <2> QED
    BY <2>2, <2>3
<1> QED
  BY <1>1, <1>2, <1>3, <1>4, <1>6 DEF Inv

\* A step of time takes one from each time-to-live, and an entry with none
\* left is gone.
LEMMA TickFacts ==
    ASSUME TypeOK, Tick
    PROVE  /\ clock' = clock + 1 /\ clock' \in 0..MaxClock
           /\ ttl' \in [Challenges -> 0..CHALLENGE_TTL]
           /\ attempts' \in [Challenges -> 0..(MAX_ATTEMPTS - 1)]
           /\ memory' \in [Codes -> 0..CODE_MEMORY]
           /\ \A h \in Challenges : /\ ttl[h] = 0 => ttl'[h] = 0
                                    /\ ttl'[h] > 0 => ttl[h] > 0 /\ attempts'[h] = attempts[h]
           /\ \A c \in Codes : memory'[c] + clock' >= memory[c] + clock
<1>. USE TwoFactorAssumption
<1>1. /\ clock < MaxClock /\ clock' = clock + 1
      /\ ttl' = [h \in Challenges |-> IF ttl[h] > 0 THEN ttl[h] - 1 ELSE 0]
      /\ attempts' = [h \in Challenges |-> IF ttl[h] > 1 THEN attempts[h] ELSE 0]
      /\ memory' = [c \in Codes |-> IF memory[c] > 0 THEN memory[c] - 1 ELSE 0]
  BY DEF Tick, OneLess, TypeOK
<1>2. clock' \in 0..MaxClock
  BY <1>1 DEF TypeOK
<1>3. ttl' \in [Challenges -> 0..CHALLENGE_TTL]
  BY <1>1 DEF TypeOK
<1>4. attempts' \in [Challenges -> 0..(MAX_ATTEMPTS - 1)]
  BY <1>1 DEF TypeOK
<1>5. memory' \in [Codes -> 0..CODE_MEMORY]
  BY <1>1 DEF TypeOK
<1>6. \A h \in Challenges : /\ ttl[h] = 0 => ttl'[h] = 0
                            /\ ttl'[h] > 0 => ttl[h] > 0 /\ attempts'[h] = attempts[h]
  BY <1>1 DEF TypeOK
<1>7. \A c \in Codes : memory'[c] + clock' >= memory[c] + clock
  BY <1>1 DEF TypeOK
<1> QED
  BY <1>1, <1>2, <1>3, <1>4, <1>5, <1>6, <1>7

\* Time takes entries away and changes none.
LEMMA TickInv ==
    ASSUME Inv, Tick
    PROVE  Inv'
<1>1. /\ spent' = spent /\ writer' = writer /\ pc' = pc /\ challenge' = challenge
      /\ code' = code /\ seen' = seen /\ known' = known /\ issued' = issued
      /\ wrong' = wrong /\ completed' = completed /\ accepted' = accepted
      /\ contested' = contested
  BY DEF Tick, rowVars, requestVars
<1>2. /\ clock' \in 0..MaxClock
      /\ ttl' \in [Challenges -> 0..CHALLENGE_TTL]
      /\ attempts' \in [Challenges -> 0..(MAX_ATTEMPTS - 1)]
      /\ memory' \in [Codes -> 0..CODE_MEMORY]
      /\ \A h \in Challenges : /\ ttl[h] = 0 => ttl'[h] = 0
                               /\ ttl'[h] > 0 => ttl[h] > 0 /\ attempts'[h] = attempts[h]
  BY TickFacts DEF Inv
<1>3. TypeOK'
  BY <1>1, <1>2 DEF Inv, TypeOK
<1>4. BackupInv' /\ ApartInv' /\ FreshInv'
  BY <1>1 DEF Inv, BackupInv, ApartInv, FreshInv
<1>5. \A r \in Requests : RequestInv(r)'
  BY <1>1 DEF Inv, RequestInv
<1>6. \A h \in Challenges \ contested : EntryInv(h)'
  BY <1>1, <1>2 DEF Inv, EntryInv, Present
<1> QED
  BY <1>1, <1>3, <1>4, <1>5, <1>6 DEF Inv

\* Each step of the model preserves the invariant.
LEMMA StepInv ==
    ASSUME Inv, [Next]_vars
    PROVE  Inv'
<1>1. ASSUME NEW r \in Requests, RequestNext(r)
      PROVE  Inv'
  BY <1>1, ReadInv, AcquireInv, AccountGoneInv, VerifiedInv, RecordFailureInv, UpdateInv,
     RememberInv, DiscardUsedInv, CommitInv, RollbackInv DEF RequestNext
<1>2. CASE UNCHANGED vars
  <2>1. /\ clock' = clock /\ ttl' = ttl /\ attempts' = attempts /\ memory' = memory
        /\ spent' = spent /\ writer' = writer /\ pc' = pc /\ challenge' = challenge
        /\ code' = code /\ seen' = seen /\ known' = known /\ issued' = issued
        /\ wrong' = wrong /\ completed' = completed /\ accepted' = accepted
        /\ contested' = contested
    BY <1>2 DEF vars, cacheVars, rowVars, requestVars, history
  <2>2. TypeOK' /\ BackupInv' /\ ApartInv' /\ FreshInv'
    BY <2>1 DEF Inv, TypeOK, BackupInv, ApartInv, FreshInv
  <2>3. \A r \in Requests : RequestInv(r)'
    BY <2>1 DEF Inv, RequestInv
  <2>4. \A h \in Challenges \ contested : EntryInv(h)'
    BY <2>1 DEF Inv, EntryInv, Present
  <2> QED
    BY <2>1, <2>2, <2>3, <2>4 DEF Inv
<1> QED
  BY <1>1, <1>2, IssueInv, TickInv DEF Next

-----------------------------------------------------------------------------
(***************************************************************************)
(* The theorems that need no assumption on times.                          *)
(***************************************************************************)

\* The invariant holds from the start.
THEOREM Invariance == Spec => []Inv
<1>1. Init => Inv
  <2> SUFFICES ASSUME Init PROVE Inv
    OBVIOUS
  <2>. USE TwoFactorAssumption
  <2>1. TypeOK
    BY DEF Init, TypeOK
  <2>2. BackupInv /\ ApartInv /\ FreshInv
    BY DEF Init, BackupInv, ApartInv, FreshInv, Codes
  <2>3. \A r \in Requests : RequestInv(r)
    BY DEF Init, RequestInv, Passed
  <2>4. \A h \in Challenges \ contested : EntryInv(h)
    BY DEF Init, EntryInv, Present
  <2> QED
    BY <2>1, <2>2, <2>3, <2>4 DEF Inv
<1>2. Inv /\ [Next]_vars => Inv'
  BY StepInv
<1> QED
  BY <1>1, <1>2, PTL DEF Spec

\* The shapes hold: a cache entry never counts as many wrong codes as burn it.
THEOREM TypeCorrect == Spec => []TypeOK
<1>1. Inv => TypeOK
  BY DEF Inv
<1> QED
  BY <1>1, Invariance, PTL

\* A challenge that requests present one at a time becomes one session, takes
\* MAX_ATTEMPTS wrong codes at most and is gone after either; a backup code
\* earns one session, whatever overlaps.
THEOREM ChallengesAreSerial == Spec => []SerialChallenge
<1>1. Inv => SerialChallenge
  <2> SUFFICES ASSUME Inv PROVE SerialChallenge
    OBVIOUS
  <2>1. ASSUME NEW h \in issued \ contested
        PROVE  /\ completed[h] <= 1 /\ wrong[h] <= MAX_ATTEMPTS
               /\ completed[h] = 1 \/ wrong[h] = MAX_ATTEMPTS => ~Present(h)
    <3>1. h \in Challenges /\ EntryInv(h) /\ attempts[h] \in 0..(MAX_ATTEMPTS - 1)
      BY <2>1 DEF Inv, TypeOK
    <3> QED
      BY <3>1, TwoFactorAssumption DEF EntryInv
  <2>2. \A c \in Backup : accepted[c] <= 1
    BY DEF Inv, BackupInv
  <2> QED
    BY <2>1, <2>2 DEF SerialChallenge
<1> QED
  BY <1>1, Invariance, PTL

\* Without an entry and without a reader, a challenge stays as it is.
LEMMA GoneStep ==
    ASSUME Inv, [Next]_vars, NEW h \in issued, ~Present(h), ~InFlight(h)
    PROVE  /\ ~Present(h)' /\ ~InFlight(h)'
           /\ completed'[h] = completed[h] /\ wrong'[h] = wrong[h]
<1>. USE TwoFactorAssumption
<1>. DEFINE Goal == /\ ~Present(h)' /\ ~InFlight(h)'
                    /\ completed'[h] = completed[h] /\ wrong'[h] = wrong[h]
<1>1. /\ h \in Challenges /\ h # None /\ ttl[h] = 0
      /\ \A q \in Requests : challenge[q] # h
  BY DEF Inv, TypeOK, Present, InFlight
<1>2. ASSUME ttl'[h] = 0, \A q \in Requests : challenge'[q] # h,
             completed'[h] = completed[h], wrong'[h] = wrong[h]
      PROVE  Goal
  BY <1>2 DEF Present, InFlight
<1>3. ASSUME NEW r \in Requests, Done(r)
      PROVE  \A q \in Requests : challenge'[q] # h
  BY <1>1, <1>3, DoneFacts DEF Inv
<1>4. ASSUME NEW r \in Requests, RequestNext(r)
      PROVE  Goal
  <2>1. ASSUME NEW g \in Challenges, NEW c \in Codes \cup {Wrong}, read(r, g, c)
        PROVE  Goal
    <3>1. /\ g # h /\ challenge' = [challenge EXCEPT ![r] = g]
          /\ ttl' = ttl /\ completed' = completed /\ wrong' = wrong
      BY <1>1, <2>1 DEF read, Enter, Present, cacheVars
    <3>2. \A q \in Requests : challenge'[q] # h
      BY <1>1, <3>1 DEF Inv, TypeOK
    <3> QED
      BY <1>1, <1>2, <3>1, <3>2
  <2>2. CASE acquire_by_id(r) \/ Verified(r) \/ Refused(r)
    <3>1. challenge' = challenge /\ ttl' = ttl /\ completed' = completed /\ wrong' = wrong
      BY <2>2 DEF acquire_by_id, Verified, Refused, Goto, cacheVars, requestVars, history
    <3> QED
      BY <1>1, <1>2, <3>1
  <2>3. CASE update(r) \/ remember(r)
    <3>1. challenge' = challenge /\ ttl' = ttl /\ completed' = completed /\ wrong' = wrong
      BY <2>3 DEF update, remember, cacheVars, requestVars, history
    <3> QED
      BY <1>1, <1>2, <3>1
  <2>4. CASE AccountGone(r)
    <3>1. ttl'[h] = 0 /\ completed' = completed /\ wrong' = wrong
      BY <1>1, <2>4 DEF AccountGone, discard, history, Inv, TypeOK
    <3> QED
      BY <1>2, <1>3, <2>4, <3>1 DEF AccountGone
  <2>5. CASE record_failure(r)
    <3>1. ttl'[h] = 0 /\ completed' = completed /\ wrong'[h] = wrong[h]
      BY <1>1, <2>5 DEF record_failure, discard, Put, Inv, TypeOK
    <3> QED
      BY <1>2, <1>3, <2>5, <3>1 DEF record_failure
  <2>6. CASE DiscardUsed(r)
    <3>1. challenge' = challenge /\ ttl'[h] = 0 /\ completed' = completed /\ wrong' = wrong
      BY <1>1, <2>6 DEF DiscardUsed, discard, requestVars, history, Inv, TypeOK
    <3> QED
      BY <1>1, <1>2, <3>1
  <2>7. CASE commit(r)
    <3>1. ttl' = ttl /\ completed'[h] = completed[h] /\ wrong' = wrong
      BY <1>1, <2>7 DEF commit, cacheVars, Inv, TypeOK
    <3> QED
      BY <1>1, <1>2, <1>3, <2>7, <3>1 DEF commit
  <2>8. CASE Rollback(r)
    <3>1. ttl' = ttl /\ completed' = completed /\ wrong' = wrong
      BY <2>8 DEF Rollback, cacheVars, history
    <3> QED
      BY <1>1, <1>2, <1>3, <2>8, <3>1 DEF Rollback
  <2> QED
    BY <1>4, <2>1, <2>2, <2>3, <2>4, <2>5, <2>6, <2>7, <2>8 DEF RequestNext
<1>5. ASSUME NEW g \in Challenges, issue(g)
      PROVE  Goal
  <2>1. /\ g # h /\ ttl' = [ttl EXCEPT ![g] = CHALLENGE_TTL] /\ challenge' = challenge
        /\ completed' = completed /\ wrong' = wrong
    BY <1>5 DEF issue, Put, requestVars
  <2>2. ttl'[h] = 0
    BY <1>1, <2>1 DEF Inv, TypeOK
  <2> QED
    BY <1>1, <1>2, <2>1, <2>2
<1>6. CASE Tick
  <2>1. ttl'[h] = 0
    BY <1>1, <1>6, TickFacts DEF Inv
  <2>2. challenge' = challenge /\ completed' = completed /\ wrong' = wrong
    BY <1>6 DEF Tick, requestVars
  <2> QED
    BY <1>1, <1>2, <2>1, <2>2
<1>7. CASE UNCHANGED vars
  <2>1. ttl' = ttl /\ challenge' = challenge /\ completed' = completed /\ wrong' = wrong
    BY <1>7 DEF vars, cacheVars, requestVars, history
  <2> QED
    BY <1>1, <1>2, <2>1
<1> QED
  BY <1>4, <1>5, <1>6, <1>7 DEF Next

\* Gone by use, exhaustion or age, a challenge nobody had read before becomes
\* no session and takes no more guesses.
THEOREM ChallengesStayGone == Spec => GoneStaysGone
<1>1. Inv /\ [Next]_vars =>
        [\A h \in issued : ~Present(h) /\ ~InFlight(h) =>
            /\ ~Present(h)' /\ ~InFlight(h)'
            /\ completed'[h] = completed[h] /\ wrong'[h] = wrong[h]]_vars
  BY GoneStep
<1> QED
  BY <1>1, Invariance, PTL DEF Spec, GoneStaysGone

-----------------------------------------------------------------------------
(***************************************************************************)
(* TOTP codes.  One verifies in three time steps: verify_code tolerates    *)
(* the steps next to its own.  So the registry has to remember it for      *)
(* three, and CODE_MEMORY_SECONDS is four.                                 *)
(***************************************************************************)

\* A step that accepts nothing and forgets nothing early keeps what is known
\* of a code.
LEMMA CodeKeep ==
    ASSUME TypeOK, NEW c \in Totp, CodeInv(c), clock' \in Nat, memory'[c] \in Nat,
           accepted'[c] = accepted[c], clock' >= clock,
           memory'[c] + clock' >= memory[c] + clock,
           \A q \in Requests : code'[q] = c /\ pc'[q] \in Passed =>
              /\ code[q] = c
              /\ pc'[q] = pc[q] \/ (pc[q] = "discard" /\ pc'[q] = "commit")
    PROVE  CodeInv(c)'
<1>. USE TwoFactorAssumption
<1>1. c \in Nat /\ clock \in Nat /\ memory[c] \in Nat
  BY DEF TypeOK, Codes
<1>2. accepted'[c] <= 1 /\ (accepted'[c] = 1 => memory'[c] + clock' > c + 1)
  BY <1>1 DEF CodeInv
<1>3. ASSUME NEW q \in Requests, code'[q] = c
      PROVE  /\ pc'[q] \in Passed => accepted'[c] = 0
             /\ pc'[q] = "remember" => c <= clock' + 1
             /\ pc'[q] \in {"discard", "commit"} => memory'[c] + clock' > c + 1
  <2>1. pc'[q] \in Passed => accepted'[c] = 0
    BY <1>3 DEF CodeInv, Passed
  <2>2. pc'[q] = "remember" => c <= clock + 1
    BY <1>3 DEF CodeInv, Passed
  <2>3. pc'[q] \in {"discard", "commit"} => memory[c] + clock > c + 1
    BY <1>3 DEF CodeInv, Passed
  <2>4. c <= clock + 1 => c <= clock' + 1
    <3>1. \A a, m, n \in Nat : n >= m /\ a <= m + 1 => a <= n + 1
      OBVIOUS
    <3> QED
      BY <1>1, <3>1, Zenon
  <2>5. memory[c] + clock > c + 1 => memory'[c] + clock' > c + 1
    BY <1>1
  <2> QED
    BY ONLY <2>1, <2>2, <2>3, <2>4, <2>5
<1> QED
  BY <1>2, <1>3 DEF CodeInv

\* A code that verifies and is not remembered has earned nothing yet.
LEMMA VerifiedCode ==
    ASSUME Inv, NEW r \in Requests, Verified(r), NEW c \in Totp \ contested, CodeInv(c)
    PROVE  CodeInv(c)'
<1>. USE TwoFactorAssumption
<1>1. /\ pc' = [pc EXCEPT ![r] = IF verify_code(code[r]) THEN "remember" ELSE "update"]
      /\ clock' = clock /\ memory' = memory /\ code' = code /\ accepted' = accepted
  BY DEF Verified, Goto, cacheVars, requestVars, history
<1>2. /\ c \in Nat /\ clock \in Nat /\ memory[c] \in Nat /\ accepted[c] \in 0..2
      /\ \A q \in Requests \ {r} : pc'[q] = pc[q]
  BY <1>1 DEF Inv, TypeOK, Codes
<1>3. CASE code[r] = c /\ verify_code(code[r])
  <2>1. c <= clock + 1 /\ clock <= c + 1 /\ memory[c] = 0
    BY <1>2, <1>3 DEF Verified, was_used, verify_code, Codes
  <2>2. accepted[c] = 0
    BY <1>2, <2>1 DEF CodeInv
  <2>3. pc'[r] = "remember"
    BY <1>1, <1>3 DEF Inv, TypeOK
  <2>4. \A q \in Requests \ {r} : code[q] # c
    BY <1>3 DEF Inv, ApartInv
  <2> QED
    BY <1>1, <1>2, <2>1, <2>2, <2>3, <2>4 DEF CodeInv, Passed
<1>4. CASE code[r] = c /\ ~verify_code(code[r])
  <2>1. pc'[r] = "update"
    BY <1>1, <1>4 DEF Inv, TypeOK
  <2> QED
    BY <1>1, <1>2, <2>1, CodeKeep DEF Passed, Inv
<1>5. CASE code[r] # c
  BY <1>1, <1>2, <1>5, CodeKeep DEF Inv
<1> QED
  BY <1>3, <1>4, <1>5

\* A remembered code outlasts its window.
LEMMA RememberedCode ==
    ASSUME CODE_MEMORY >= 3, Inv, NEW r \in Requests, remember(r),
           NEW c \in Totp \ contested, CodeInv(c)
    PROVE  CodeInv(c)'
<1>. USE TwoFactorAssumption
<1>1. /\ pc[r] = "remember" /\ pc' = [pc EXCEPT ![r] = "discard"]
      /\ memory' = [memory EXCEPT ![code[r]] = CODE_MEMORY]
      /\ clock' = clock /\ code' = code /\ accepted' = accepted
  BY DEF remember, requestVars, history
<1>2. /\ c \in Nat /\ clock \in Nat /\ memory[c] \in Nat
      /\ pc'[r] = "discard" /\ \A q \in Requests \ {r} : pc'[q] = pc[q]
  BY <1>1 DEF Inv, TypeOK, Codes
<1>3. CASE code[r] = c
  <2>1. c <= clock + 1 /\ accepted[c] = 0
    BY <1>1, <1>3 DEF CodeInv, Passed
  <2>2. memory'[c] = CODE_MEMORY
    BY <1>1, <1>3 DEF Inv, TypeOK, Codes
  <2>3. memory'[c] + clock' > c + 1
    BY <1>1, <1>2, <2>1, <2>2
  <2>4. \A q \in Requests \ {r} : code[q] # c
    BY <1>3 DEF Inv, ApartInv
  <2> QED
    BY <1>1, <1>2, <2>1, <2>3, <2>4 DEF CodeInv, Passed
<1>4. CASE code[r] # c
  <2>1. memory'[c] = memory[c]
    BY <1>1, <1>4 DEF Inv, TypeOK, Codes
  <2> QED
    BY <1>1, <1>2, <1>4, <2>1, CodeKeep DEF Inv
<1> QED
  BY <1>3, <1>4

\* Who commits is the only one to present the code, and it is remembered.
LEMMA CommittedCode ==
    ASSUME Inv, NEW r \in Requests, commit(r), NEW c \in Totp \ contested, CodeInv(c)
    PROVE  CodeInv(c)'
<1>. USE TwoFactorAssumption
<1>1. /\ pc[r] = "commit" /\ Done(r)
      /\ accepted' = [accepted EXCEPT ![code[r]] = IF @ < 2 THEN @ + 1 ELSE @]
      /\ clock' = clock /\ memory' = memory
  BY DEF commit, CountTo, cacheVars
<1>2. /\ c \in Nat /\ clock \in Nat /\ memory[c] \in Nat /\ c \in Codes /\ c # Wrong
  BY DEF Inv, TypeOK, Codes
<1>3. /\ pc'[r] = "idle" /\ code'[r] = Wrong
      /\ \A q \in Requests \ {r} : pc'[q] = pc[q] /\ code'[q] = code[q]
  BY <1>1, DoneFacts DEF Inv
<1>4. CASE code[r] = c
  <2>1. accepted[c] = 0 /\ memory[c] + clock > c + 1
    BY <1>1, <1>4 DEF CodeInv, Passed
  <2>2. accepted'[c] = 1
    BY <1>1, <1>2, <1>4, <2>1 DEF Inv, TypeOK
  <2>3. \A q \in Requests : code'[q] # c
    BY <1>2, <1>3, <1>4 DEF Inv, ApartInv
  <2> QED
    BY <1>1, <2>1, <2>2, <2>3 DEF CodeInv
<1>5. CASE code[r] # c
  <2>1. accepted'[c] = accepted[c]
    BY <1>1, <1>2, <1>5 DEF Inv, TypeOK
  <2> QED
    BY <1>1, <1>2, <1>3, <2>1, CodeKeep DEF Inv
<1> QED
  BY <1>4, <1>5

\* Each step preserves what is known of uncontested codes.
LEMMA TimeStep ==
    ASSUME CODE_MEMORY >= 3, Inv, TimeInv, [Next]_vars
    PROVE  TimeInv'
<1>. USE TwoFactorAssumption
<1>2. ASSUME NEW c \in Totp \ contested
      PROVE  /\ CodeInv(c) /\ TypeOK /\ c \in Codes /\ c # Wrong /\ c \notin Backup
             /\ clock \in Nat /\ memory[c] \in Nat
  BY <1>2 DEF TimeInv, Inv, TypeOK, Codes
<1>3. ASSUME NEW r \in Requests, Done(r), clock' = clock, memory' = memory,
             accepted' = accepted, NEW c \in Totp \ contested
      PROVE  CodeInv(c)'
  <2>1. /\ code'[r] = Wrong
        /\ \A q \in Requests \ {r} : pc'[q] = pc[q] /\ code'[q] = code[q]
    BY <1>3, DoneFacts DEF Inv
  <2>2. \A q \in Requests : code'[q] = c => code[q] = c /\ pc'[q] = pc[q]
    BY <1>2, <2>1
  <2> QED
    BY <1>2, <1>3, <2>2, CodeKeep
<1>4. ASSUME NEW r \in Requests, NEW w, pc' = [pc EXCEPT ![r] = w], code' = code,
             clock' = clock, memory' = memory, accepted' = accepted,
             NEW c \in Totp \ contested,
             w \notin Passed \/ code[r] # c \/ (pc[r] = "discard" /\ w = "commit")
      PROVE  CodeInv(c)'
  <2>1. pc'[r] = w /\ \A q \in Requests \ {r} : pc'[q] = pc[q]
    BY <1>4 DEF Inv, TypeOK
  <2>2. \A q \in Requests : code'[q] = c /\ pc'[q] \in Passed =>
            /\ code[q] = c
            /\ pc'[q] = pc[q] \/ (pc[q] = "discard" /\ pc'[q] = "commit")
    BY <1>4, <2>1
  <2> QED
    BY <1>2, <1>4, <2>2, CodeKeep
<1>5. ASSUME NEW r \in Requests, RequestNext(r)
      PROVE  TimeInv'
  <2>1. ASSUME NEW h \in Challenges, NEW d \in Codes \cup {Wrong}, read(r, h, d)
        PROVE  TimeInv'
    <3>1. /\ pc' = [pc EXCEPT ![r] = "read"] /\ code' = [code EXCEPT ![r] = d]
          /\ clock' = clock /\ memory' = memory /\ accepted' = accepted
          /\ contested \subseteq contested'
      BY <2>1 DEF read, Enter, cacheVars
    <3>2. pc'[r] = "read" /\ \A q \in Requests \ {r} : pc'[q] = pc[q] /\ code'[q] = code[q]
      BY <3>1 DEF Inv, TypeOK
    <3>3. ASSUME NEW c \in Totp \ contested'
          PROVE  CodeInv(c)'
      <4>1. c \in Totp \ contested
        BY <3>1, <3>3
      <4>2. \A q \in Requests : code'[q] = c /\ pc'[q] \in Passed =>
                code[q] = c /\ pc'[q] = pc[q]
        BY <3>2 DEF Passed
      <4> QED
        BY <1>2, <3>1, <4>1, <4>2, CodeKeep
    <3> QED
      BY <3>3 DEF TimeInv
  <2>2. CASE acquire_by_id(r)
    <3>1. /\ pc' = [pc EXCEPT ![r] = "loaded"] /\ code' = code /\ clock' = clock
          /\ memory' = memory /\ accepted' = accepted /\ contested' = contested
      BY <2>2 DEF acquire_by_id, cacheVars, history
    <3>2. "loaded" \notin Passed
      BY DEF Passed
    <3> QED
      BY ONLY <1>4, <3>1, <3>2 DEF TimeInv
  <2>3. CASE AccountGone(r) \/ Rollback(r)
    <3>1. /\ Done(r) /\ clock' = clock /\ memory' = memory /\ accepted' = accepted
          /\ contested' = contested
      BY <2>3 DEF AccountGone, Rollback, cacheVars, history
    <3> QED
      BY <1>3, <3>1 DEF TimeInv
  <2>4. CASE Verified(r)
    <3>1. contested' = contested
      BY <2>4 DEF Verified, Goto, history
    <3> QED
      BY <1>2, <2>4, <3>1, VerifiedCode DEF TimeInv
  <2>5. CASE Refused(r)
    <3>1. /\ pc' = [pc EXCEPT ![r] = "failing"] /\ code' = code /\ clock' = clock
          /\ memory' = memory /\ accepted' = accepted /\ contested' = contested
      BY <2>5 DEF Refused, Goto, cacheVars, requestVars, history
    <3>2. "failing" \notin Passed
      BY DEF Passed
    <3> QED
      BY ONLY <1>4, <3>1, <3>2 DEF TimeInv
  <2>6. CASE record_failure(r)
    <3>1. /\ Done(r) /\ clock' = clock /\ memory' = memory /\ accepted' = accepted
          /\ contested' = contested
      BY <2>6 DEF record_failure
    <3> QED
      BY <1>3, <3>1 DEF TimeInv
  <2>7. CASE update(r)
    <3>1. /\ pc' = [pc EXCEPT ![r] = "remember"] /\ code' = code /\ clock' = clock
          /\ memory' = memory /\ accepted' = accepted /\ contested' = contested
          /\ pc[r] = "update"
      BY <2>7 DEF update, cacheVars, requestVars, history
    <3>2. \A c \in Totp \ contested : code[r] # c
      BY <1>2, <3>1 DEF Inv, RequestInv
    <3> QED
      BY <1>4, <3>1, <3>2 DEF TimeInv
  <2>8. CASE remember(r)
    <3>1. contested' = contested
      BY <2>8 DEF remember, history
    <3> QED
      BY <1>2, <2>8, <3>1, RememberedCode DEF TimeInv
  <2>9. CASE DiscardUsed(r)
    <3>1. /\ pc' = [pc EXCEPT ![r] = "commit"] /\ code' = code /\ clock' = clock
          /\ memory' = memory /\ accepted' = accepted /\ contested' = contested
          /\ pc[r] = "discard"
      BY <2>9 DEF DiscardUsed, requestVars, history
    <3> QED
      BY <1>4, <3>1 DEF TimeInv
  <2>10. CASE commit(r)
    <3>1. contested' = contested
      BY <2>10 DEF commit
    <3> QED
      BY <1>2, <2>10, <3>1, CommittedCode DEF TimeInv
  <2> QED
    BY <1>5, <2>1, <2>2, <2>3, <2>4, <2>5, <2>6, <2>7, <2>8, <2>9, <2>10 DEF RequestNext
<1>6. ASSUME NEW h \in Challenges, issue(h)
      PROVE  TimeInv'
  <2>1. /\ pc' = pc /\ code' = code /\ clock' = clock /\ memory' = memory
        /\ accepted' = accepted /\ contested' = contested
    BY <1>6 DEF issue, requestVars
  <2> QED
    BY <1>2, <2>1, CodeKeep DEF TimeInv
<1>7. CASE Tick
  <2>1. /\ pc' = pc /\ code' = code /\ accepted' = accepted /\ contested' = contested
    BY <1>7 DEF Tick, requestVars
  <2>2. /\ clock' = clock + 1 /\ clock' \in 0..MaxClock /\ memory' \in [Codes -> 0..CODE_MEMORY]
        /\ \A c \in Codes : memory'[c] + clock' >= memory[c] + clock
    BY <1>7, TickFacts DEF Inv
  <2>3. ASSUME NEW c \in Totp \ contested
        PROVE  CodeInv(c)'
    <3>1. clock' \in Nat /\ memory'[c] \in Nat /\ clock' >= clock
      BY <1>2, <2>2, <2>3
    <3> QED
      BY <1>2, <2>1, <2>2, <2>3, <3>1, CodeKeep
  <2> QED
    BY <2>1, <2>3 DEF TimeInv
<1>8. CASE UNCHANGED vars
  <2>1. /\ pc' = pc /\ code' = code /\ clock' = clock /\ memory' = memory
        /\ accepted' = accepted /\ contested' = contested
    BY <1>8 DEF vars, cacheVars, requestVars, history
  <2> QED
    BY <1>2, <2>1, CodeKeep DEF TimeInv
<1> QED
  BY <1>5, <1>6, <1>7, <1>8 DEF Next

\* A registry that remembers for three steps or more lets an uncontested TOTP
\* code earn one session at most, over all challenges and all time.
THEOREM CodesAreSerial ==
    ASSUME CODE_MEMORY >= 3
    PROVE  Spec => []SerialCode
<1>1. Init => TimeInv
  BY TwoFactorAssumption DEF Init, TimeInv, CodeInv, Codes, Passed
<1>2. Inv /\ TimeInv /\ [Next]_vars => TimeInv'
  BY TimeStep
<1>3. TimeInv => SerialCode
  BY DEF TimeInv, CodeInv, SerialCode
<1> QED
  BY <1>1, <1>2, <1>3, Invariance, PTL DEF Spec
=============================================================================
