------------------------- MODULE VaultClients_proofs --------------------------
(***************************************************************************)
(* Theorems about VaultClients, for any processes, names, captures and     *)
(* probes.  The operations of SecretsVault keep VInv, whoever calls them;  *)
(* what IInv adds to it is about the callers.                              *)
(***************************************************************************)
EXTENDS VaultClients, TLAPS

VInv == VaultTypeOK /\ AcknowledgedIsKept /\ Carried /\ Rotators /\ Keyed

Copies == [key : 1..MaxKeys, data : Stored]

LEMMA CopyFacts ==
  ASSUME VaultTypeOK, NEW p \in Procs, mem[p] # Locked
  PROVE  mem[p] \in Copies /\ mem[p].key \in 1..MaxKeys /\ mem[p].data \in Stored
BY DEF VaultTypeOK, Copies

LEMMA LockedIsNoCopy == Locked \notin Copies
BY VaultConstants DEF Locked, Copies, NoKey

\* A process's copy with one name changed.
LEMMA Changed ==
  ASSUME NEW copy \in Copies, NEW n \in Names, NEW v \in Values \cup {None}
  PROVE  /\ [copy EXCEPT !.data[n] = v] \in Copies
         /\ [copy EXCEPT !.data[n] = v] # Locked
         /\ [copy EXCEPT !.data[n] = v].key = copy.key
         /\ [copy EXCEPT !.data[n] = v].data = [copy.data EXCEPT ![n] = v]
         /\ [copy.data EXCEPT ![n] = v] \in Stored
         /\ [copy.data EXCEPT ![n] = v][n] = v
         /\ \A m \in Names : m # n => [copy.data EXCEPT ![n] = v][m] = copy.data[m]
<1>1. copy.data \in Stored /\ copy.key \in 1..MaxKeys
  BY DEF Copies
<1>2. [copy.data EXCEPT ![n] = v] \in Stored
  BY <1>1 DEF Stored
<1>3. [copy EXCEPT !.data[n] = v] = [copy EXCEPT !.data = [copy.data EXCEPT ![n] = v]]
  BY DEF Copies
<1>4. [copy EXCEPT !.data[n] = v] \in Copies
  BY <1>2, <1>3 DEF Copies
<1> QED
  BY <1>1, <1>2, <1>3, <1>4, LockedIsNoCopy DEF Copies, Stored

-----------------------------------------------------------------------------
(* The operations of the vault.                                            *)

\* What a process is in, by its step.
LEMMA RotFacts ==
  ASSUME VaultTypeOK, NEW p \in Procs
  PROVE  /\ rot[p].step \in {"none", "vault", "clean", "plain", "wrapped", "new", "fill"}
         /\ rot[p] = NoRotation <=> rot[p].step = "none"
         /\ rot[p].step \in {"vault", "clean"} =>
               rot[p] \in [step : {"vault", "clean"}, key : 1..MaxKeys, passphrase : BOOLEAN]
         /\ rot[p].step = "fill" => rot[p].key \in 1..MaxKeys
         /\ Rewriting(p) <=> rot[p].step \in {"vault", "clean", "plain", "wrapped", "fill"}
BY DEF VaultTypeOK, NoRotation, Rewriting

\* A step that leaves the identities and the rotations as they are, and whose
\* processes hold what they held, keeps Keyed.
LEMMA KeyedKept ==
  ASSUME Keyed, torn => torn', UNCHANGED <<plain, wrapped, rot>>,
         ~torn' => vault'.to = vault.to,
         \A q \in Procs : mem'[q] # Locked => mem[q] # Locked /\ mem'[q].key = mem[q].key,
         ~torn' => \A q \in Procs : (mem'[q] # Locked \/ rot[q].step = "clean")
                        => (Identity \in behind'[q] <=> Identity \in behind[q])
  PROVE  Keyed'
<1> SUFFICES ASSUME ~torn' PROVE Keyed'
  BY DEF Keyed
<1>1. ~torn /\ vault'.to = vault.to
  OBVIOUS
<1>2. (~Rekeying => Opens)'
  BY <1>1 DEF Keyed, Rekeying, Rewriting, Opens, KeyOnDisk
<1>3. (\A p, q \in Procs : Rewriting(p) /\ Rewriting(q) => p = q)'
  BY <1>1 DEF Keyed, Rewriting
<1>4. ASSUME NEW p \in Procs
      PROVE  /\ rot'[p].step \in {"vault", "clean"} =>
                   (IF rot'[p].passphrase THEN wrapped' ELSE plain') = rot'[p].key
             /\ (rot'[p].step = "clean" /\ Identity \notin behind'[p]) => vault'.to = rot'[p].key
             /\ rot'[p].step \in {"plain", "wrapped", "fill"} =>
                   vault'.to = NoKey /\ \A q \in Procs : mem'[q] # Locked => Identity \in behind'[q]
             /\ rot'[p].step = "wrapped" => plain' = NoKey
             /\ rot'[p].step = "fill" => KeyOnDisk' = rot'[p].key
             /\ (mem'[p] # Locked /\ Identity \notin behind'[p] /\ rot'[p].step # "clean")
                   => mem'[p].key = vault'.to
  BY <1>1, <1>4 DEF Keyed, KeyOnDisk
<1> QED
  BY <1>2, <1>3, <1>4 DEF Keyed

LEMMA UnlockInv ==
  ASSUME VInv, NEW p \in Procs, Unlock(p)
  PROVE  VInv'
<1> USE DEF VInv, Unlock
<1>1. KeyOnDisk = vault.to /\ vault.to \in 1..MaxKeys /\ vault.data \in Stored /\ KeyOnDisk # NoKey
  BY VaultConstants DEF Opens, Initialized, NoKey, VaultTypeOK
<1>2. mem' = [mem EXCEPT ![p] = [key |-> vault.to, data |-> vault.data]]
      /\ [key |-> vault.to, data |-> vault.data] \in Copies
  BY <1>1 DEF Copies
<1>3. VaultTypeOK'
  BY <1>2 DEF VaultTypeOK, Copies
<1>4. AcknowledgedIsKept'
  BY DEF AcknowledgedIsKept
<1>8. rot[p].step = "none"
  BY DEF NoRotation
<1>5. Carried'
  BY <1>2, <1>8 DEF Carried, AcknowledgedIsKept, VaultTypeOK
<1>7. Rotators'
  BY <1>2, <1>8, LockedIsNoCopy DEF Rotators, VaultTypeOK
<1>6. Keyed'
  <2> SUFFICES ASSUME ~torn PROVE Keyed'
    BY DEF Keyed
  <2>2. \A q \in Procs : q # p => mem'[q] = mem[q] /\ behind'[q] = behind[q]
    BY DEF VaultTypeOK
  <2>3. mem'[p].key = vault.to /\ behind'[p] = {}
    BY <1>2 DEF VaultTypeOK
  <2>4. vault.to # NoKey
    BY <1>1 DEF Initialized
  <2>5. \A q \in Procs : rot[q].step \notin {"plain", "wrapped", "fill"}
    BY <2>4 DEF Keyed
  <2>6. /\ (~Rekeying => Opens)'
        /\ (\A r, q \in Procs : Rewriting(r) /\ Rewriting(q) => r = q)'
    BY DEF Keyed, Rekeying, Rewriting, Opens, KeyOnDisk
  <2>7. ASSUME NEW q \in Procs
        PROVE  /\ rot[q].step \in {"vault", "clean"} =>
                     (IF rot[q].passphrase THEN wrapped ELSE plain) = rot[q].key
               /\ (rot[q].step = "clean" /\ Identity \notin behind'[q]) => vault.to = rot[q].key
               /\ (mem'[q] # Locked /\ Identity \notin behind'[q] /\ rot[q].step # "clean")
                     => mem'[q].key = vault.to
    BY <1>8, <2>2, <2>3 DEF Keyed
  <2> QED
    BY <2>5, <2>6, <2>7 DEF Keyed
<1> QED
  BY <1>3, <1>4, <1>5, <1>6, <1>7

LEMMA ExitInv ==
  ASSUME VInv, NEW p \in Procs, Exit(p)
  PROVE  VInv'
<1> USE DEF VInv, Exit
<1>1. VaultTypeOK'
  BY DEF VaultTypeOK
<1>2. AcknowledgedIsKept'
  BY DEF AcknowledgedIsKept
<1>3. Carried'
  BY DEF Carried, VaultTypeOK, NoRotation
<1>4. Keyed'
  <2> SUFFICES ASSUME ~torn' PROVE Keyed'
    BY DEF Keyed
  <2>1. ~torn /\ ~Rewriting(p)
    OBVIOUS
  <2>2. /\ rot'[p] = NoRotation /\ mem'[p] = Locked
        /\ \A q \in Procs : q # p => rot'[q] = rot[q] /\ mem'[q] = mem[q] /\ behind'[q] = behind[q]
    BY DEF VaultTypeOK
  <2>3. \A q \in Procs : Rewriting(q)' <=> Rewriting(q)
    BY <2>1, <2>2 DEF Rewriting, NoRotation
  <2>4. (~Rekeying => Opens)' /\ (\A r, q \in Procs : Rewriting(r) /\ Rewriting(q) => r = q)'
    BY <2>1, <2>3 DEF Keyed, Rekeying, Opens, KeyOnDisk
  <2>5. ASSUME NEW q \in Procs
        PROVE  /\ rot'[q].step \in {"vault", "clean"} =>
                     (IF rot'[q].passphrase THEN wrapped ELSE plain) = rot'[q].key
               /\ (rot'[q].step = "clean" /\ Identity \notin behind'[q]) => vault.to = rot'[q].key
               /\ rot'[q].step \in {"plain", "wrapped", "fill"} =>
                     vault.to = NoKey /\ \A r \in Procs : mem'[r] # Locked => Identity \in behind'[r]
               /\ rot'[q].step = "wrapped" => plain = NoKey
               /\ rot'[q].step = "fill" => KeyOnDisk = rot'[q].key
               /\ (mem'[q] # Locked /\ Identity \notin behind'[q] /\ rot'[q].step # "clean")
                     => mem'[q].key = vault.to
    BY <2>1, <2>2 DEF Keyed, NoRotation
  <2>6. KeyOnDisk' = KeyOnDisk
    BY DEF KeyOnDisk
  <2> QED
    BY <2>4, <2>5, <2>6 DEF Keyed
<1>5. Rotators'
  BY DEF Rotators, VaultTypeOK, NoRotation
<1> QED
  BY <1>1, <1>2, <1>3, <1>4, <1>5

\* Flush, for a caller that is told what it has written.
LEMMA FlushInv ==
  ASSUME VInv, NEW p \in Procs, NEW n \in Names, NEW v \in Values \cup {None},
         Unlocked(p), Flush(p, n, v), acked' = [acked EXCEPT ![n] = v],
         UNCHANGED <<plain, wrapped, keys, rot, failures>>
  PROVE  VInv'
<1> DEFINE new == [mem[p] EXCEPT !.data[n] = v]
           data == [mem[p].data EXCEPT ![n] = v]
<1>1. mem[p] \in Copies /\ mem[p] # Locked /\ rot[p] = NoRotation
  BY CopyFacts DEF VInv, Unlocked
<1>2. /\ new \in Copies /\ new # Locked /\ new.key = mem[p].key /\ new.data = data
      /\ data \in Stored /\ data[n] = v
      /\ \A m \in Names : m # n => data[m] = mem[p].data[m]
  BY <1>1, Changed
<1>3. /\ mem' = [mem EXCEPT ![p] = Keep(p, new)]
      /\ vault' = [to |-> mem[p].key, data |-> data]
      /\ excused' = excused \cup (behind[p] \ {Identity, n})
      /\ torn' = (torn \/ Identity \in behind[p])
      /\ behind' = [q \in Procs |-> IF q = p \/ Idle(q) THEN {}
                                    ELSE behind[q] \cup {n} \cup (behind[p] \ {Identity})]
  BY DEF Flush, Overtakes
<1>4. Keep(p, new) \in {new, Locked}
  BY DEF Keep
<1>5. mem'[p] \in {new, Locked} /\ \A q \in Procs : q # p => mem'[q] = mem[q]
  BY <1>3, <1>4 DEF VInv, VaultTypeOK
<1> HIDE DEF new, data
<1>6. VaultTypeOK'
  <2>1. mem' \in [Procs -> Copies \cup {Locked}]
    BY <1>2, <1>3, <1>4 DEF VInv, VaultTypeOK, Copies
  <2>2. vault' \in [to : 1..MaxKeys, data : Stored]
    BY <1>1, <1>2, <1>3 DEF Copies
  <2>3. acked' \in Stored /\ excused' \subseteq Names /\ torn' \in BOOLEAN
        /\ behind' \in [Procs -> SUBSET (Names \cup {Identity})]
    BY <1>3 DEF VInv, VaultTypeOK, Stored
  <2> QED
    BY <2>1, <2>2, <2>3 DEF VInv, VaultTypeOK, Copies
<1>7. \A m \in Names : m \notin behind[p] \cup excused => data[m] = acked'[m]
  BY <1>1, <1>2 DEF VInv, Carried, VaultTypeOK, Stored
<1>8. AcknowledgedIsKept'
  <2> SUFFICES ASSUME NEW m \in Names, m \notin excused'
               PROVE  vault'.data[m] = acked'[m]
    BY DEF AcknowledgedIsKept
  <2>1. m = n \/ m \notin behind[p] \cup excused
    BY <1>3, VaultConstants
  <2>2. acked'[n] = v
    BY DEF VInv, VaultTypeOK, Stored
  <2> QED
    BY <1>2, <1>3, <1>7, <2>1, <2>2
<1>9. Carried'
  <2> SUFFICES ASSUME NEW q \in Procs, NEW m \in Names, mem'[q] # Locked \/ rot[q].step = "fill",
                      m \notin behind'[q] \cup excused'
               PROVE  /\ mem'[q] # Locked => mem'[q].data[m] = acked'[m]
                      /\ rot[q].step = "fill" => acked'[m] = None
    BY DEF Carried
  <2>1. CASE q = p
    <3>1. mem'[p] # Locked => mem'[p].data = vault'.data
      BY <1>2, <1>3, <1>5, <2>1
    <3>2. rot[p].step # "fill"
      BY <1>1 DEF NoRotation
    <3> QED
      BY <1>8, <2>1, <3>1, <3>2 DEF AcknowledgedIsKept
  <2>2. CASE q # p
    <3>1. mem'[q] = mem[q] /\ m \notin behind[q] /\ m # n /\ m \notin excused
      BY <1>3, <1>5, <2>2 DEF Idle
    <3>2. acked'[m] = acked[m]
      BY <3>1 DEF VInv, VaultTypeOK, Stored
    <3> QED
      BY <3>1, <3>2 DEF VInv, Carried
  <2> QED
    BY <2>1, <2>2
<1>10. Keyed'
  <2>1. ~torn' => ~torn /\ Identity \notin behind[p]
    BY <1>3
  <2>2. ~torn' => vault'.to = vault.to
    BY <1>1, <1>3, <2>1 DEF VInv, Keyed, NoRotation
  <2>3. Identity # n
    BY VaultConstants
  <2>4. \A q \in Procs : rot[q].step = "clean" => mem[q] # Locked
    BY DEF VInv, Rotators
  <2>5. \A q \in Procs : mem'[q] # Locked => mem[q] # Locked /\ mem'[q].key = mem[q].key
    BY <1>1, <1>2, <1>5
  <2>6. ~torn' => \A q \in Procs : (mem'[q] # Locked \/ rot[q].step = "clean")
                       => (Identity \in behind'[q] <=> Identity \in behind[q])
    BY <1>3, <2>1, <2>3, <2>4, <2>5 DEF Idle
  <2>7. UNCHANGED <<plain, wrapped, rot>> /\ (torn => torn') /\ Keyed
    BY <1>3 DEF VInv
  <2> QED
    BY <2>2, <2>5, <2>6, <2>7, KeyedKept
<1>11. Rotators'
  BY <1>1, <1>5 DEF VInv, Rotators, NoRotation
<1> QED
  BY <1>6, <1>8, <1>9, <1>10, <1>11 DEF VInv

LEMMA StoreInv ==
  ASSUME VInv, NEW p \in Procs, NEW n \in Names, NEW v \in Values, Store(p, n, v)
  PROVE  VInv'
BY FlushInv DEF Store

LEMMA FlushFailsInv ==
  ASSUME VInv, NEW p \in Procs, NEW n \in Names, NEW v \in Values \cup {None},
         Unlocked(p), FlushFails(p, n, v)
  PROVE  VInv'
<1> DEFINE new == [mem[p] EXCEPT !.data[n] = v]
           data == [mem[p].data EXCEPT ![n] = v]
<1>1. mem[p] \in Copies /\ mem[p] # Locked /\ rot[p] = NoRotation
  BY CopyFacts DEF VInv, Unlocked
<1>2. /\ new \in Copies /\ new # Locked /\ new.key = mem[p].key /\ new.data = data
      /\ data \in Stored /\ data[n] = v
      /\ \A m \in Names : m # n => data[m] = mem[p].data[m]
  BY <1>1, Changed
<1>3. mem' = [mem EXCEPT ![p] = Keep(p, new)] /\ excused' = excused \cup {n}
  BY DEF FlushFails
<1>4. Keep(p, new) \in {new, Locked}
  BY DEF Keep
<1>5. mem'[p] \in {new, Locked} /\ \A q \in Procs : q # p => mem'[q] = mem[q]
  BY <1>3, <1>4 DEF VInv, VaultTypeOK
<1> HIDE DEF new, data
<1>6. VaultTypeOK'
  <2>1. mem' \in [Procs -> Copies \cup {Locked}]
    BY <1>2, <1>3, <1>4 DEF VInv, VaultTypeOK, Copies
  <2>2. failures' \in 0..MaxFailures
    BY VaultConstants DEF VInv, VaultTypeOK, FlushFails
  <2> QED
    BY <1>3, <2>1, <2>2 DEF VInv, VaultTypeOK, Copies, FlushFails
<1>7. AcknowledgedIsKept'
  BY <1>3 DEF VInv, AcknowledgedIsKept, FlushFails
<1>8. Carried'
  BY <1>1, <1>2, <1>3, <1>5 DEF VInv, Carried, FlushFails
<1>9. Keyed'
  <2>1. \A q \in Procs : mem'[q] # Locked => mem[q] # Locked /\ mem'[q].key = mem[q].key
    BY <1>1, <1>2, <1>5
  <2>2. Keyed /\ UNCHANGED <<plain, wrapped, vault, rot, behind, torn>>
    BY DEF VInv, FlushFails
  <2> QED
    BY <2>1, <2>2, KeyedKept
<1>10. Rotators'
  BY <1>1, <1>5 DEF VInv, Rotators, FlushFails, NoRotation
<1> QED
  BY <1>6, <1>7, <1>8, <1>9, <1>10 DEF VInv

LEMMA RemoveInv ==
  ASSUME VInv, NEW p \in Procs, NEW n \in Names, Remove(p, n)
  PROVE  VInv'
<1>1. CASE Flush(p, n, None)
  BY <1>1, FlushInv DEF Remove
<1>2. CASE mem[p].data[n] = None /\ mem' = [mem EXCEPT ![p] = Keep(p, @)]
           /\ excused' = (IF n \in behind[p] THEN excused \cup {n} ELSE excused)
           /\ UNCHANGED <<vault, behind, torn>>
  <2>1. /\ Unlocked(p) /\ acked' = [acked EXCEPT ![n] = None]
        /\ UNCHANGED <<plain, wrapped, keys, rot, failures>>
    BY DEF Remove
  <2>2. mem[p] # Locked /\ rot[p] = NoRotation
    BY <2>1 DEF Unlocked
  <2>3. mem'[p] \in {mem[p], Locked} /\ \A q \in Procs : q # p => mem'[q] = mem[q]
    BY <1>2 DEF Keep, VInv, VaultTypeOK
  <2>4. acked' = acked \/ n \in excused'
    <3>1. CASE n \in behind[p] \cup excused
      BY <1>2, <3>1
    <3>2. CASE n \notin behind[p] \cup excused
      BY <1>2, <2>1, <2>2, <3>2 DEF VInv, Carried, VaultTypeOK, Stored
    <3> QED
      BY <3>1, <3>2
  <2>5. \A m \in Names : m \notin excused' => acked'[m] = acked[m] /\ m \notin excused
    BY <1>2, <2>1, <2>4 DEF VInv, VaultTypeOK, Stored
  <2>6. VaultTypeOK'
    <3>1. mem' \in [Procs -> Copies \cup {Locked}]
      BY <1>2 DEF Keep, VInv, VaultTypeOK, Copies
    <3>2. acked' \in Stored /\ excused' \subseteq Names
      BY <1>2, <2>1 DEF VInv, VaultTypeOK, Stored
    <3> QED
      BY <1>2, <2>1, <3>1, <3>2 DEF VInv, VaultTypeOK, Copies
  <2>7. AcknowledgedIsKept'
    BY <1>2, <2>5 DEF VInv, AcknowledgedIsKept
  <2>8. Carried'
    <3>1. Carried /\ UNCHANGED <<rot, behind>>
      BY <1>2, <2>1 DEF VInv
    <3>2. SUFFICES ASSUME NEW q \in Procs, NEW m \in Names, m \notin behind[q] \cup excused'
                   PROVE  /\ mem'[q] # Locked => mem'[q].data[m] = acked'[m]
                          /\ rot[q].step = "fill" => acked'[m] = None
      BY <3>1 DEF Carried
    <3>3. acked'[m] = acked[m] /\ m \notin behind[q] \cup excused
      BY <2>5, <3>2
    <3>4. mem'[q] # Locked => mem'[q] = mem[q]
      BY <2>3
    <3> QED
      BY <3>1, <3>3, <3>4 DEF Carried
  <2>9. Keyed'
    <3>1. \A q \in Procs : mem'[q] # Locked => mem[q] # Locked /\ mem'[q].key = mem[q].key
      BY <2>2, <2>3
    <3>2. Keyed /\ UNCHANGED <<plain, wrapped, vault, rot, behind, torn>>
      BY <1>2, <2>1 DEF VInv
    <3> QED
      BY <3>1, <3>2, KeyedKept
  <2>10. Rotators'
    BY <2>1, <2>2, <2>3 DEF VInv, Rotators, NoRotation
  <2> QED
    BY <2>6, <2>7, <2>8, <2>9, <2>10 DEF VInv
<1> QED
  BY <1>1, <1>2 DEF Remove

\* Files are rewritten one at a time until torn: a process that starts alone.
LEMMA Alone ==
  ASSUME VaultTypeOK, NEW p \in Procs, \A q \in Procs : ~Rewriting(q),
         NEW new, rot' = [rot EXCEPT ![p] = new]
  PROVE  /\ rot'[p] = new
         /\ \A q \in Procs : q # p => rot'[q] = rot[q] /\ rot'[q].step \in {"none", "new"}
         /\ (\A r, q \in Procs : Rewriting(r) /\ Rewriting(q) => r = q)'
<1>1. rot'[p] = new /\ \A q \in Procs : q # p => rot'[q] = rot[q]
  BY DEF VaultTypeOK
<1>2. \A q \in Procs : q # p => rot'[q].step \in {"none", "new"}
  BY <1>1 DEF Rewriting
<1> QED
  BY <1>1, <1>2 DEF Rewriting

\* The one that is at work goes on, or ends.
LEMMA StillAlone ==
  ASSUME VaultTypeOK, Keyed, ~torn, NEW p \in Procs, Rewriting(p),
         NEW new, rot' = [rot EXCEPT ![p] = new]
  PROVE  /\ rot'[p] = new
         /\ \A q \in Procs : q # p => rot'[q] = rot[q] /\ rot'[q].step \in {"none", "new"}
         /\ (\A r, q \in Procs : Rewriting(r) /\ Rewriting(q) => r = q)'
<1>1. rot'[p] = new /\ \A q \in Procs : q # p => rot'[q] = rot[q]
  BY DEF VaultTypeOK
<1>2. \A q \in Procs : q # p => rot'[q].step \in {"none", "new"}
  BY <1>1 DEF Rewriting, Keyed
<1> QED
  BY <1>1, <1>2 DEF Rewriting

LEMMA RotateIdentityInv ==
  ASSUME VInv, NEW p \in Procs, NEW passphrase \in BOOLEAN, RotateIdentity(p, passphrase)
  PROVE  VInv'
<1> DEFINE new == [step |-> "vault", key |-> keys + 1, passphrase |-> passphrase]
<1> USE DEF VInv, RotateIdentity
<1>1. keys + 1 \in 1..MaxKeys /\ keys + 1 \in 0..MaxKeys /\ mem[p] # Locked /\ rot[p] = NoRotation
  BY VaultConstants DEF VaultTypeOK, Unlocked
<1>2. VaultTypeOK'
  BY <1>1 DEF VaultTypeOK
<1>3. AcknowledgedIsKept'
  BY DEF AcknowledgedIsKept
<1>6. \A q \in Procs : rot'[q] = rot[q] \/ (q = p /\ rot'[q].step = "vault")
  BY DEF VaultTypeOK
<1>7. Carried'
  BY <1>6 DEF Carried
<1>5. Rotators'
  BY <1>1, <1>6 DEF Rotators
<1>4. Keyed'
  <2> SUFFICES ASSUME ~torn' PROVE Keyed'
    BY DEF Keyed
  <2>1. ~torn /\ \A q \in Procs : ~Rewriting(q)
    BY DEF Rekeying
  <2>2. rot' = [rot EXCEPT ![p] = new]
    OBVIOUS
  <2>3. /\ rot'[p] = new /\ \A q \in Procs : q # p => rot'[q].step \in {"none", "new"}
        /\ (\A r, q \in Procs : Rewriting(r) /\ Rewriting(q) => r = q)'
    BY <2>1, <2>2, Alone
  <2>4. Rekeying'
    BY <2>3 DEF Rekeying, Rewriting
  <2>5. \A q \in Procs : rot[q].step # "clean"
    BY <2>1 DEF Rewriting
  <2>6. \A q \in Procs : mem[q] # Locked /\ Identity \notin behind[q] => mem[q].key = vault.to
    BY <2>1, <2>5 DEF Keyed
  <2> QED
    BY <2>3, <2>4, <2>6 DEF Keyed
<1> QED
  BY <1>2, <1>3, <1>4, <1>5, <1>7

LEMMA RotateVaultInv ==
  ASSUME VInv, NEW p \in Procs, RotateVault(p)
  PROVE  VInv'
<1> USE DEF VInv, RotateVault
<1>1. rot[p].step = "vault" /\ Rewriting(p)
      /\ rot[p] \in [step : {"vault", "clean"}, key : 1..MaxKeys, passphrase : BOOLEAN]
  BY RotFacts DEF Rewriting
<1>2. rot'[p] = [rot[p] EXCEPT !.step = "clean"] /\ \A q \in Procs : q # p => rot'[q] = rot[q]
  BY DEF VaultTypeOK
<1>3. rot'[p].step = "clean" /\ rot'[p].key = rot[p].key /\ rot'[p].passphrase = rot[p].passphrase
      /\ rot'[p] \in [step : {"vault", "clean"}, key : 1..MaxKeys, passphrase : BOOLEAN]
  BY <1>1, <1>2
<1>4. mem[p] \in Copies /\ mem[p] # Locked
  BY <1>1, CopyFacts DEF Rotators
<1>5. VaultTypeOK'
  <2>1. vault' \in [to : 0..MaxKeys, data : Stored]
    BY <1>1, <1>4, VaultConstants DEF Copies
  <2> QED
    BY <1>3, <2>1 DEF VaultTypeOK
<1>6. AcknowledgedIsKept'
  BY <1>4, VaultConstants DEF AcknowledgedIsKept, Carried
<1>7. Carried'
  <2> SUFFICES ASSUME NEW q \in Procs, NEW m \in Names, mem[q] # Locked \/ rot'[q].step = "fill",
                      m \notin behind'[q] \cup excused'
               PROVE  /\ mem[q] # Locked => mem[q].data[m] = acked[m]
                      /\ rot'[q].step = "fill" => acked[m] = None
    BY DEF Carried
  <2>1. m # Identity /\ (rot'[q].step = "fill" => q # p /\ rot[q].step = "fill")
    BY <1>2, <1>3, VaultConstants
  <2>2. m \notin excused /\ m \notin behind[p]
    BY <2>1
  <2>3. m \notin behind[q]
    BY <2>1, <2>2 DEF Idle
  <2> QED
    BY <2>1, <2>2, <2>3 DEF Carried
<1>8. Rotators'
  BY <1>2, <1>3, <1>4 DEF Rotators
<1>9. Keyed'
  <2> SUFFICES ASSUME ~torn' PROVE Keyed'
    BY DEF Keyed
  <2>1. ~torn /\ Identity \notin behind[p]
    OBVIOUS
  <2>2. /\ \A q \in Procs : q # p => rot'[q].step \in {"none", "new"}
        /\ (\A r, q \in Procs : Rewriting(r) /\ Rewriting(q) => r = q)'
    BY <1>1, <2>1, StillAlone
  <2>3. \A q \in Procs : (q # p /\ mem[q] # Locked) => Identity \in behind'[q]
    BY DEF Idle
  <2>4. (IF rot[p].passphrase THEN wrapped ELSE plain) = rot[p].key
    BY <1>1, <2>1 DEF Keyed
  <2>5. vault'.to = rot[p].key
    OBVIOUS
  <2>6. Rekeying'
    BY <1>3 DEF Rekeying, Rewriting
  <2> QED
    BY <1>3, <2>2, <2>3, <2>4, <2>5, <2>6 DEF Keyed
<1> QED
  BY <1>5, <1>6, <1>7, <1>8, <1>9

LEMMA RotateCleanInv ==
  ASSUME VInv, NEW p \in Procs, RotateClean(p)
  PROVE  VInv'
<1> USE DEF VInv, RotateClean
<1>1. rot[p].step = "clean" /\ Rewriting(p)
      /\ rot[p] \in [step : {"vault", "clean"}, key : 1..MaxKeys, passphrase : BOOLEAN]
  BY RotFacts DEF Rewriting
<1>2. rot'[p] = NoRotation /\ \A q \in Procs : q # p => rot'[q] = rot[q]
  BY DEF VaultTypeOK
<1>3. mem'[p] = Locked /\ \A q \in Procs : q # p => mem'[q] = mem[q]
  BY DEF VaultTypeOK
<1>4. VaultTypeOK'
  BY VaultConstants DEF VaultTypeOK, NoKey
<1>5. AcknowledgedIsKept' /\ Carried' /\ Rotators'
  BY <1>2, <1>3 DEF AcknowledgedIsKept, Carried, Rotators, NoRotation
<1>6. Keyed'
  <2> SUFFICES ASSUME ~torn' PROVE Keyed'
    BY DEF Keyed
  <2>1. ~torn /\ Identity \notin behind[p]
    OBVIOUS
  <2>2. /\ \A q \in Procs : q # p => rot'[q].step \in {"none", "new"}
        /\ (\A r, q \in Procs : Rewriting(r) /\ Rewriting(q) => r = q)'
    BY <1>1, <2>1, StillAlone
  <2>6. \A q \in Procs : rot'[q].step \in {"none", "new"}
    BY <1>2, <2>2 DEF NoRotation
  <2>3. vault.to = rot[p].key /\ (IF rot[p].passphrase THEN wrapped ELSE plain) = rot[p].key
        /\ rot[p].key # NoKey
    BY <1>1, <2>1, VaultConstants DEF Keyed, NoKey
  <2>4. Opens'
    BY <1>1, <2>3 DEF Opens, KeyOnDisk
  <2>7. \A q \in Procs : q # p => rot[q].step # "clean"
    BY <1>2, <2>6
  <2>5. \A q \in Procs : (mem'[q] # Locked /\ Identity \notin behind'[q]) => mem'[q].key = vault'.to
    BY <1>3, <2>1, <2>7 DEF Keyed
  <2> QED
    BY <2>2, <2>4, <2>5, <2>6 DEF Keyed
<1> QED
  BY <1>4, <1>5, <1>6

-----------------------------------------------------------------------------
(* Creation.                                                               *)

LEMMA EmptyStored == Empty \in Stored /\ \A n \in Names : Empty[n] = None
BY DEF Empty, Stored

LEMMA EraseVaultInv ==
  ASSUME VInv, NEW p \in Procs, EraseVault(p)
  PROVE  VInv'
<1> USE DEF VInv, EraseVault
<1>1. rot' = [rot EXCEPT ![p] = [step |-> "plain"]] /\ mem[p] = Locked /\ UNCHANGED mem
  OBVIOUS
<1>2. rot'[p].step = "plain" /\ \A q \in Procs : q # p => rot'[q] = rot[q]
  BY DEF VaultTypeOK
<1>3. VaultTypeOK'
  <2>1. vault' \in [to : 0..MaxKeys, data : Stored]
    BY EmptyStored, VaultConstants DEF NoVault, NoKey
  <2> QED
    BY <2>1, EmptyStored DEF VaultTypeOK
<1>4. AcknowledgedIsKept'
  BY EmptyStored DEF AcknowledgedIsKept, NoVault
<1>5. Carried'
  BY EmptyStored DEF Carried
<1>6. Rotators'
  BY <1>1, <1>2 DEF Rotators
<1>7. Keyed'
  <2> SUFFICES ASSUME ~torn' PROVE Keyed'
    BY DEF Keyed
  <2>1. ~torn /\ \A q \in Procs : ~Rewriting(q)
    BY DEF Rekeying
  <2>2. /\ \A q \in Procs : q # p => rot'[q].step \in {"none", "new"}
        /\ (\A r, q \in Procs : Rewriting(r) /\ Rewriting(q) => r = q)'
    BY <1>1, <2>1, Alone
  <2>3. Rekeying'
    BY <1>2 DEF Rekeying, Rewriting
  <2>4. \A q \in Procs : mem'[q] # Locked => Identity \in behind'[q]
    OBVIOUS
  <2>5. vault'.to = NoKey
    BY DEF NoVault
  <2> QED
    BY <1>2, <2>2, <2>3, <2>4, <2>5 DEF Keyed
<1> QED
  BY <1>3, <1>4, <1>5, <1>6, <1>7

LEMMA EraseIdentityInv ==
  ASSUME VInv, NEW p \in Procs, EraseIdentity(p)
  PROVE  VInv'
<1> USE DEF VInv, EraseIdentity
<1>1. PICK next \in {"wrapped", "new"} :
        /\ rot' = [rot EXCEPT ![p] = [step |-> next]]
        /\ \/ rot[p].step = "plain" /\ next = "wrapped" /\ plain' = NoKey /\ wrapped' = wrapped
           \/ rot[p].step = "wrapped" /\ next = "new" /\ wrapped' = NoKey /\ plain' = plain
  OBVIOUS
<1>2. rot'[p].step = next /\ \A q \in Procs : q # p => rot'[q] = rot[q]
  BY <1>1 DEF VaultTypeOK
<1>8. rot[p].step \in {"plain", "wrapped"} /\ Rewriting(p)
  BY <1>1 DEF Rewriting
<1>3. VaultTypeOK'
  BY <1>1, VaultConstants DEF VaultTypeOK, NoKey
<1>4. AcknowledgedIsKept'
  BY DEF AcknowledgedIsKept
<1>5. Carried'
  BY <1>2 DEF Carried
<1>6. Rotators'
  BY <1>2, <1>8 DEF Rotators
<1>7. Keyed'
  <2> SUFFICES ASSUME ~torn' PROVE Keyed'
    BY DEF Keyed
  <2>1. ~torn
    OBVIOUS
  <2>2. /\ \A q \in Procs : q # p => rot'[q].step \in {"none", "new"}
        /\ (\A r, q \in Procs : Rewriting(r) /\ Rewriting(q) => r = q)'
    BY <1>1, <1>8, <2>1, StillAlone
  <2>3. vault.to = NoKey /\ \A q \in Procs : mem[q] # Locked => Identity \in behind[q]
    BY <1>8, <2>1 DEF Keyed
  <2>4. next = "new" => Opens'
    BY <1>1, <2>1, <2>3 DEF Keyed, Opens, KeyOnDisk
  <2>5. next = "wrapped" => Rekeying' /\ plain' = NoKey
    BY <1>1, <1>2 DEF Rekeying, Rewriting
  <2> QED
    BY <1>2, <2>2, <2>3, <2>4, <2>5 DEF Keyed
<1> QED
  BY <1>3, <1>4, <1>5, <1>6, <1>7

LEMMA FindNoneInv ==
  ASSUME VInv, NEW p \in Procs, FindNone(p)
  PROVE  VInv'
<1> USE DEF VInv, FindNone
<1>1. rot[p].step = "none" /\ mem[p] = Locked
  BY DEF NoRotation
<1>2. rot'[p] = [step |-> "new"] /\ \A q \in Procs : q # p => rot'[q] = rot[q]
  BY DEF VaultTypeOK
<1>3. VaultTypeOK'
  BY DEF VaultTypeOK
<1>4. AcknowledgedIsKept' /\ Carried' /\ Rotators'
  BY <1>1, <1>2 DEF AcknowledgedIsKept, Carried, Rotators
<1>5. \A q \in Procs : Rewriting(q)' <=> Rewriting(q)
  BY <1>1, <1>2 DEF Rewriting
<1>6. Keyed'
  <2> SUFFICES ASSUME ~torn PROVE Keyed'
    BY DEF Keyed
  <2>1. (~Rekeying => Opens)' /\ (\A r, q \in Procs : Rewriting(r) /\ Rewriting(q) => r = q)'
    BY <1>5 DEF Keyed, Rekeying, Opens, KeyOnDisk
  <2>2. \A q \in Procs : rot'[q].step = "new" \/ rot'[q] = rot[q]
    BY <1>2
  <2>3. \A q \in Procs : mem[q] # Locked => rot'[q] = rot[q]
    BY <1>1, <1>2
  <2>4. KeyOnDisk' = KeyOnDisk
    BY DEF KeyOnDisk
  <2> QED
    BY <2>1, <2>2, <2>3, <2>4 DEF Keyed
<1> QED
  BY <1>3, <1>4, <1>6

LEMMA CreateIdentityInv ==
  ASSUME VInv, NEW p \in Procs, NEW passphrase \in BOOLEAN, CreateIdentity(p, passphrase)
  PROVE  VInv'
<1> USE DEF VInv, CreateIdentity
<1>1. keys + 1 \in 1..MaxKeys /\ keys + 1 \in 0..MaxKeys /\ rot[p].step = "new" /\ mem[p] = Locked
  BY VaultConstants DEF VaultTypeOK, Rotators
<1>2. /\ rot'[p] = [step |-> "fill", key |-> keys + 1]
      /\ behind'[p] = {n \in Names : vault.data[n] # None}
      /\ \A q \in Procs : q # p => rot'[q] = rot[q] /\ behind'[q] = behind[q]
  BY DEF VaultTypeOK
<1>3. VaultTypeOK'
  BY <1>1 DEF VaultTypeOK
<1>4. AcknowledgedIsKept'
  BY DEF AcknowledgedIsKept
<1>5. Carried'
  BY <1>1, <1>2 DEF Carried, AcknowledgedIsKept
<1>6. Rotators'
  BY <1>1, <1>2 DEF Rotators
<1>7. Keyed'
  <2> SUFFICES ASSUME ~torn' PROVE Keyed'
    BY DEF Keyed
  <2>1. ~torn /\ \A q \in Procs : ~Rewriting(q)
    BY DEF Rekeying
  <2>2. rot' = [rot EXCEPT ![p] = [step |-> "fill", key |-> keys + 1]]
    OBVIOUS
  <2>3. /\ \A q \in Procs : q # p => rot'[q].step \in {"none", "new"}
        /\ (\A r, q \in Procs : Rewriting(r) /\ Rewriting(q) => r = q)'
    BY <2>1, <2>2, Alone
  <2>4. Rekeying'
    BY <1>2 DEF Rekeying, Rewriting
  <2>5. Opens
    BY <2>1 DEF Keyed, Rekeying
  \* Nothing is there, so nobody has read it.
  <2>6. vault.to = NoKey /\ KeyOnDisk = NoKey
    BY <2>5 DEF Opens, Initialized, NoVault
  <2>7. \A q \in Procs : mem[q] # Locked => Identity \in behind[q]
    <3> SUFFICES ASSUME NEW q \in Procs, mem[q] # Locked, Identity \notin behind[q]
                 PROVE  FALSE
      OBVIOUS
    <3>1. rot[q].step # "clean"
      BY <2>1 DEF Rewriting
    <3>2. mem[q].key = vault.to
      BY <2>1, <3>1 DEF Keyed
    <3> QED
      BY <2>6, <3>2, CopyFacts, VaultConstants DEF NoKey
  <2>8. wrapped = NoKey /\ keys + 1 # NoKey
    BY <1>1, <2>6, VaultConstants DEF KeyOnDisk, NoKey
  <2>9. KeyOnDisk' = keys + 1
    BY <2>8 DEF KeyOnDisk
  <2>10. \A q \in Procs : mem'[q] # Locked => Identity \in behind'[q]
    BY <1>1, <1>2, <2>7
  <2> QED
    BY <1>2, <2>3, <2>4, <2>6, <2>9, <2>10 DEF Keyed
<1> QED
  BY <1>3, <1>4, <1>5, <1>6, <1>7

LEMMA CreateVaultInv ==
  ASSUME VInv, NEW p \in Procs, CreateVault(p)
  PROVE  VInv'
<1> DEFINE copy == [key |-> rot[p].key, data |-> Empty]
<1> USE DEF VInv, CreateVault
<1>1. rot[p].step = "fill" /\ Rewriting(p) /\ rot[p].key \in 1..MaxKeys /\ mem[p] = Locked
  BY RotFacts DEF Rewriting, Rotators
<1>2. copy \in Copies /\ Keep(p, copy) \in {copy, Locked}
  BY <1>1, EmptyStored DEF Copies, Keep
<1>3. /\ rot'[p] = NoRotation /\ mem'[p] = Keep(p, copy) /\ behind'[p] = {}
      /\ \A q \in Procs : q # p => rot'[q] = rot[q] /\ mem'[q] = mem[q]
  BY DEF VaultTypeOK
<1>4. VaultTypeOK'
  <2>1. vault' \in [to : 0..MaxKeys, data : Stored]
    BY <1>1, EmptyStored, VaultConstants
  <2>2. mem' \in [Procs -> Copies \cup {Locked}]
    BY <1>2 DEF VaultTypeOK, Copies
  <2> QED
    BY <2>1, <2>2 DEF VaultTypeOK, Copies
<1>5. AcknowledgedIsKept'
  <2> SUFFICES ASSUME NEW n \in Names, n \notin excused'
               PROVE  vault'.data[n] = acked[n]
    BY DEF AcknowledgedIsKept
  <2>1. n \notin behind[p] \cup excused
    BY VaultConstants
  <2> QED
    BY <1>1, <2>1, EmptyStored DEF Carried
<1>6. Carried'
  <2> SUFFICES ASSUME NEW q \in Procs, NEW m \in Names, mem'[q] # Locked \/ rot'[q].step = "fill",
                      m \notin behind'[q] \cup excused'
               PROVE  /\ mem'[q] # Locked => mem'[q].data[m] = acked[m]
                      /\ rot'[q].step = "fill" => acked[m] = None
    BY DEF Carried
  <2>1. CASE q = p
    BY <1>2, <1>3, <1>5, <2>1 DEF AcknowledgedIsKept, NoRotation
  <2>2. CASE q # p
    <3>1. mem[q] # Locked \/ rot[q].step = "fill"
      BY <1>3, <2>2
    <3>2. m \notin behind[q] /\ m \notin excused
      BY <2>2, <3>1 DEF Idle
    <3> QED
      BY <1>3, <2>2, <3>2 DEF Carried
  <2> QED
    BY <2>1, <2>2
<1>7. Rotators'
  BY <1>3 DEF Rotators, NoRotation
<1>8. Keyed'
  <2> SUFFICES ASSUME ~torn' PROVE Keyed'
    BY DEF Keyed
  <2>1. ~torn
    OBVIOUS
  <2>2. /\ \A q \in Procs : q # p => rot'[q].step \in {"none", "new"}
        /\ (\A r, q \in Procs : Rewriting(r) /\ Rewriting(q) => r = q)'
    BY <1>1, <2>1, StillAlone
  <2>3. \A q \in Procs : rot'[q].step \in {"none", "new"}
    BY <1>3, <2>2 DEF NoRotation
  <2>4. Opens'
    BY <1>1, <2>1 DEF Keyed, Opens, KeyOnDisk
  <2>5. \A q \in Procs : (q # p /\ mem'[q] # Locked) => Identity \in behind'[q]
    BY <1>3 DEF Idle
  <2>6. mem'[p] # Locked => mem'[p].key = vault'.to
    BY <1>2, <1>3
  <2> QED
    BY <2>2, <2>3, <2>4, <2>5, <2>6 DEF Keyed
<1> QED
  BY <1>4, <1>5, <1>6, <1>7, <1>8

LEMMA CreateInv ==
  ASSUME VInv, NEW p \in Procs, Create(p)
  PROVE  VInv'
BY EraseVaultInv, EraseIdentityInv, FindNoneInv, CreateIdentityInv, CreateVaultInv DEF Create

LEMMA RotateInv ==
  ASSUME VInv, NEW p \in Procs, Rotate(p)
  PROVE  VInv'
BY RotateIdentityInv, RotateVaultInv, RotateCleanInv DEF Rotate

LEMMA StoreFailsInv ==
  ASSUME VInv, NEW p \in Procs, NEW n \in Names, NEW v \in Values, StoreFails(p, n, v)
  PROVE  VInv'
BY FlushFailsInv DEF StoreFails

LEMMA RemoveFailsInv ==
  ASSUME VInv, NEW p \in Procs, NEW n \in Names, RemoveFails(p, n)
  PROVE  VInv'
BY FlushFailsInv DEF RemoveFails

LEMMA VaultStutter ==
  ASSUME VInv, UNCHANGED vaultVars
  PROVE  VInv'
<1> USE DEF vaultVars
<1>1. VaultTypeOK' /\ AcknowledgedIsKept' /\ Carried' /\ Rotators'
  BY DEF VInv, VaultTypeOK, AcknowledgedIsKept, Carried, Rotators
<1>2. Keyed'
  BY KeyedKept DEF VInv
<1> QED
  BY <1>1, <1>2 DEF VInv

-----------------------------------------------------------------------------
(* What the operations do to the names of the clients.                     *)

\* Process p has written, or tried to write, v for n.
Wrote(p, n, v) ==
    \/ v \in Values /\ (Store(p, n, v) \/ StoreFails(p, n, v))
    \/ v = None /\ (Remove(p, n) \/ RemoveFails(p, n))

LEMMA WroteInv ==
  ASSUME VInv, NEW p \in Procs, NEW n \in Names, NEW v, Wrote(p, n, v)
  PROVE  VInv'
BY StoreInv, StoreFailsInv, RemoveInv, RemoveFailsInv DEF Wrote

\* The copy of the server after one of its writes.
LEMMA ServerCopy ==
  ASSUME VInv, NEW n \in Names, NEW v \in Values \cup {None}, mem[Server] # Locked,
         mem' = [mem EXCEPT ![Server] = Keep(Server, [@ EXCEPT !.data[n] = v])]
  PROVE  /\ mem'[Server] # Locked /\ mem'[Server].data[n] = v
         /\ \A m \in Names : m # n => mem'[Server].data[m] = mem[Server].data[m]
<1> DEFINE new == [mem[Server] EXCEPT !.data[n] = v]
           data == [mem[Server].data EXCEPT ![n] = v]
<1>1. mem[Server] \in Copies
  BY CopyFacts DEF VInv, Procs
<1>2. mem'[Server] = new
  BY DEF Keep, VInv, VaultTypeOK, Procs
<1>3. /\ new \in Copies /\ new # Locked /\ new.key = mem[Server].key /\ new.data = data
      /\ data \in Stored /\ data[n] = v
      /\ \A m \in Names : m # n => data[m] = mem[Server].data[m]
  BY ONLY <1>1, Changed, n \in Names, v \in Values \cup {None}
<1> HIDE DEF new, data
<1> QED
  BY <1>2, <1>3

LEMMA WroteEffects ==
  ASSUME VInv, NEW p \in Procs, NEW n \in Names, NEW v, Wrote(p, n, v)
  PROVE  /\ excused \subseteq excused'
         /\ acked'[n] = v \/ n \in excused'
         /\ \A m \in Names : m # n => acked'[m] = acked[m]
         /\ p # Server => mem'[Server] = mem[Server]
         /\ p = Server => /\ mem[Server] # Locked /\ mem'[Server] # Locked
                          /\ mem'[Server].data[n] = v
                          /\ \A m \in Names : m # n => mem'[Server].data[m] = mem[Server].data[m]
<1>0. v \in Values \cup {None} /\ Unlocked(p) /\ mem[p] # Locked
  BY DEF Wrote, Store, StoreFails, Remove, RemoveFails, Unlocked
<1> USE VaultConstants DEF VInv, VaultTypeOK, Procs
<1>1. CASE Flush(p, n, v) /\ acked' = [acked EXCEPT ![n] = v]
  <2>1. mem' = [mem EXCEPT ![p] = Keep(p, [@ EXCEPT !.data[n] = v])]
    BY <1>1 DEF Flush
  <2>2. excused' = excused \cup (behind[p] \ ({Identity} \cup {n}))
    BY <1>1 DEF Flush, Overtakes
  <2>4. p = Server => /\ mem'[Server] # Locked /\ mem'[Server].data[n] = v
                      /\ \A m \in Names : m # n => mem'[Server].data[m] = mem[Server].data[m]
    BY <1>0, <2>1, ServerCopy
  <2>5. acked'[n] = v /\ \A m \in Names : m # n => acked'[m] = acked[m]
    BY <1>1 DEF Stored
  <2>6. p # Server => mem'[Server] = mem[Server]
    BY <2>1
  <2> QED
    BY <1>0, <2>2, <2>4, <2>5, <2>6
<1>2. CASE FlushFails(p, n, v)
  <2>1. mem' = [mem EXCEPT ![p] = Keep(p, [@ EXCEPT !.data[n] = v])]
        /\ excused' = excused \cup {n} /\ UNCHANGED <<acked, behind>>
    BY <1>2 DEF FlushFails
  <2>2. p = Server => /\ mem'[Server] # Locked /\ mem'[Server].data[n] = v
                      /\ \A m \in Names : m # n => mem'[Server].data[m] = mem[Server].data[m]
    BY <1>0, <2>1, ServerCopy
  <2>3. p # Server => mem'[Server] = mem[Server]
    BY <2>1
  <2> QED
    BY <1>0, <2>1, <2>2, <2>3
<1>3. CASE v = None /\ acked' = [acked EXCEPT ![n] = v] /\ mem[p].data[n] = None
           /\ mem' = [mem EXCEPT ![p] = Keep(p, @)]
           /\ excused' = (IF n \in behind[p] THEN excused \cup {n} ELSE excused)
           /\ behind' = behind
  <2>1. p = Server => mem'[Server] = mem[Server]
    BY <1>3 DEF Keep
  <2>2. p # Server => mem'[Server] = mem[Server]
    BY <1>3
  <2>3. acked'[n] = v /\ \A m \in Names : m # n => acked'[m] = acked[m]
    BY <1>3 DEF Stored
  <2> QED
    BY <1>0, <1>3, <2>1, <2>2, <2>3
<1> QED
  BY <1>1, <1>2, <1>3 DEF Wrote, Store, StoreFails, Remove, RemoveFails

LEMMA RotateEffects ==
  ASSUME VInv, NEW p \in Procs, Rotate(p)
  PROVE  /\ excused \subseteq excused' /\ acked' = acked
         /\ mem'[Server] \in {mem[Server], Locked}
<1> USE DEF VInv, VaultTypeOK, Procs
<1>1. CASE \E passphrase \in BOOLEAN : RotateIdentity(p, passphrase)
  BY <1>1 DEF RotateIdentity
<1>2. CASE RotateVault(p)
  BY <1>2 DEF RotateVault
<1>3. CASE RotateClean(p)
  BY <1>3 DEF RotateClean
<1> QED
  BY <1>1, <1>2, <1>3 DEF Rotate

LEMMA CreateEffects ==
  ASSUME VInv, NEW p \in Procs, Create(p)
  PROVE  /\ excused \subseteq excused' /\ acked' \in {acked, Empty}
         /\ mem'[Server] \in {mem[Server], Locked}
            \/ mem'[Server].data = Empty
<1> USE DEF VInv, VaultTypeOK, Procs
<1>1. CASE EraseVault(p)
  BY <1>1 DEF EraseVault
<1>2. CASE EraseIdentity(p) \/ FindNone(p)
  BY <1>2 DEF EraseIdentity, FindNone
<1>3. CASE \E passphrase \in BOOLEAN : CreateIdentity(p, passphrase)
  BY <1>3 DEF CreateIdentity
<1>4. CASE CreateVault(p)
  BY <1>4 DEF CreateVault, Keep
<1> QED
  BY <1>1, <1>2, <1>3, <1>4 DEF Create

-----------------------------------------------------------------------------
(* The clients.                                                            *)

ClientTypes ==
    /\ capture \in [Runs -> {"none", "live", "wiped"}]
    /\ snaps \subseteq Runs /\ wiping \subseteq Runs
    /\ writer \in [Runs -> {"none", "keyed", "started", "off"}]
    /\ probe \in [Probes -> Values \cup {None}]
    /\ pastes \in 0..MaxPastes /\ overlap \in BOOLEAN

LEMMA IInvParts ==
  /\ IInv <=> VInv /\ ClientTypes /\ ServerForgets /\ KeysStayAway /\ OnePaste
  /\ IInv' <=> (VInv /\ ClientTypes /\ ServerForgets /\ KeysStayAway /\ OnePaste)'
BY DEF IInv, TypeOK, VInv, ClientTypes

LEMMA Constants ==
  /\ Token \in Names /\ Token \notin Runs /\ Runs \subseteq Names /\ Identity \notin Names
  /\ Key \in Values /\ Tokens \subseteq Values /\ None \notin Values /\ Server \in Procs
  /\ MaxPastes \in Nat /\ Tokens = 1..MaxPastes
BY VaultConstants, ClientConstants DEF Procs, Tokens

\* A write of the token leaves the captures' keys in the server's copy alone.
LEMMA KeysUntouched ==
  ASSUME VInv, ServerForgets, NEW p \in Procs, NEW v, Wrote(p, Token, v),
         UNCHANGED <<capture, wiping>>
  PROVE  ServerForgets'
<1>1. /\ excused \subseteq excused'
      /\ p # Server => mem'[Server] = mem[Server]
      /\ p = Server => mem[Server] # Locked
      /\ p = Server => \A r \in Runs : mem'[Server].data[r] = mem[Server].data[r]
  BY WroteEffects, Constants
<1> QED
  BY <1>1 DEF ServerForgets

\* A write of a capture's key leaves the token alone.
LEMMA TokenUntouched ==
  ASSUME VInv, OnePaste, NEW n \in Runs, NEW v, Wrote(Server, n, v),
         UNCHANGED <<probe, pastes, overlap>>
  PROVE  OnePaste'
<1>1. Token \in Names /\ Token # n /\ n \in Names /\ Server \in Procs
  BY Constants
<1>2. /\ excused \subseteq excused' /\ acked'[Token] = acked[Token]
      /\ mem[Server] # Locked /\ mem'[Server].data[Token] = mem[Server].data[Token]
  BY <1>1, WroteEffects
<1> QED
  BY <1>2 DEF OnePaste

LEMMA StartKeyInv ==
  ASSUME IInv, NEW r \in Runs, StartKey(r)
  PROVE  IInv'
<1> USE IInvParts
<1>1. Wrote(Server, r, Key)
  BY Constants DEF StartKey, Wrote
<1>2. VInv'
  BY <1>1, WroteInv, Constants
<1>3. ClientTypes'
  BY DEF StartKey, ClientTypes
<1>4. ServerForgets'
  <2>1. /\ excused \subseteq excused' /\ mem[Server] # Locked
        /\ \A q \in Runs : q # r => mem'[Server].data[q] = mem[Server].data[q]
    BY <1>1, WroteEffects, Constants
  <2>2. capture[r] = "none" /\ UNCHANGED <<capture, wiping>> /\ r \notin wiping
    BY DEF StartKey, KeysStayAway
  <2> QED
    BY <2>1, <2>2 DEF ServerForgets
<1>5. KeysStayAway'
  <2>1. \A q \in Runs : q # r => acked'[q] = acked[q]
    BY <1>1, WroteEffects, Constants
  <2>2. excused \subseteq excused' /\ capture[r] = "none" /\ UNCHANGED <<capture, wiping>>
    BY <1>1, WroteEffects, Constants DEF StartKey
  <2> QED
    BY <2>1, <2>2 DEF KeysStayAway
<1>6. OnePaste'
  BY <1>1, TokenUntouched DEF StartKey
<1> QED
  BY <1>2, <1>3, <1>4, <1>5, <1>6

LEMMA WipeKeyInv ==
  ASSUME IInv, NEW r \in Runs, WipeKey(r)
  PROVE  IInv'
<1> USE IInvParts
<1>1. Wrote(Server, r, None)
  BY DEF WipeKey, Wrote
<1>2. VInv'
  BY <1>1, WroteInv, Constants
<1>3. ClientTypes'
  BY DEF WipeKey, ClientTypes
<1>4. ServerForgets'
  <2>1. /\ excused \subseteq excused' /\ mem[Server] # Locked /\ mem'[Server].data[r] = None
        /\ \A q \in Runs : q # r => mem'[Server].data[q] = mem[Server].data[q]
    BY <1>1, WroteEffects, Constants
  <2>2. capture' = capture /\ wiping' = wiping \cup {r}
    BY DEF WipeKey
  <2> QED
    BY <2>1, <2>2 DEF ServerForgets
<1>5. KeysStayAway'
  <2>1. \A q \in Runs : q # r => acked'[q] = acked[q]
    BY <1>1, WroteEffects, Constants
  <2>2. /\ excused \subseteq excused' /\ (acked'[r] = None \/ r \in excused')
        /\ capture[r] # "none" /\ capture' = capture /\ wiping' = wiping \cup {r}
    BY <1>1, WroteEffects, Constants DEF WipeKey
  <2> QED
    BY <2>1, <2>2 DEF KeysStayAway
<1>6. OnePaste'
  BY <1>1, TokenUntouched DEF WipeKey
<1> QED
  BY <1>2, <1>3, <1>4, <1>5, <1>6

\* Steps that leave the vault, its processes and the token alone.
LEMMA RowsInv ==
  ASSUME IInv, NEW r \in Runs, StartRow(r) \/ Record(r) \/ WipeRows(r)
  PROVE  IInv'
<1> USE IInvParts
<1>1. UNCHANGED vaultVars /\ UNCHANGED <<probe, pastes, overlap>>
  BY DEF StartRow, Record, WipeRows
<1>2. VInv'
  BY <1>1, VaultStutter
<1>3. ClientTypes'
  BY DEF StartRow, Record, WipeRows, ClientTypes
<1>4. OnePaste'
  BY <1>1 DEF OnePaste, vaultVars
<1>6. ServerForgets'
  <2>1. wiping' \subseteq wiping /\ \A q \in Runs : capture'[q] = "wiped" => capture[q] = "wiped" \/ q \in wiping
    BY DEF StartRow, Record, WipeRows, ClientTypes
  <2> QED
    BY <1>1, <2>1 DEF ServerForgets, vaultVars
<1>5. KeysStayAway'
  <2>1. CASE StartRow(r)
    BY <1>1, <2>1 DEF StartRow, KeysStayAway, ClientTypes, vaultVars
  <2>2. CASE Record(r)
    BY <1>1, <2>2 DEF Record, KeysStayAway, vaultVars
  <2>3. CASE WipeRows(r)
    BY <1>1, <2>3 DEF WipeRows, KeysStayAway, ClientTypes, vaultVars
  <2> QED
    BY <2>1, <2>2, <2>3
<1> QED
  BY <1>2, <1>3, <1>4, <1>5, <1>6

\* A write of the token leaves the captures alone.
LEMMA CapturesUntouched ==
  ASSUME VInv, KeysStayAway, NEW p \in Procs, NEW v, Wrote(p, Token, v),
         UNCHANGED <<capture, wiping>>
  PROVE  KeysStayAway'
<1>1. excused \subseteq excused' /\ \A r \in Runs : acked'[r] = acked[r]
  BY WroteEffects, Constants
<1> QED
  BY <1>1 DEF KeysStayAway

LEMMA PasteInv ==
  ASSUME IInv, NEW p \in Procs, Paste(p)
  PROVE  IInv'
<1> USE IInvParts
<1>1. pastes + 1 \in Tokens /\ pastes' = pastes + 1 /\ pastes' \in 0..MaxPastes
  BY Constants DEF Paste, ClientTypes
<1>2. Wrote(p, Token, pastes + 1)
  BY <1>1, Constants DEF Paste, Wrote
<1>3. VInv'
  BY <1>2, WroteInv, Constants
<1>4. ClientTypes'
  BY <1>1 DEF Paste, ClientTypes
<1>5. ServerForgets'
  BY <1>2, KeysUntouched DEF Paste
<1>6. KeysStayAway'
  BY <1>2, CapturesUntouched DEF Paste
<1>7. OnePaste'
  <2> SUFFICES ASSUME Token \notin excused', ~overlap'
               PROVE  OnePaste'
    BY DEF OnePaste
  <2>1. (\A i \in Probes : probe[i] = None) /\ (p = Server \/ mem[Server] = Locked) /\ probe' = probe
    BY DEF Paste
  <2>2. acked'[Token] = pastes'
    BY <1>1, <1>2, WroteEffects, Constants
  <2>3. mem'[Server] # Locked => mem'[Server].data[Token] = pastes'
    BY <1>1, <1>2, <2>1, WroteEffects, Constants
  <2> QED
    BY <2>1, <2>2, <2>3 DEF OnePaste
<1> QED
  BY <1>3, <1>4, <1>5, <1>6, <1>7

LEMMA DiscardInv ==
  ASSUME IInv, NEW p \in Procs, Discard(p)
  PROVE  IInv'
<1> USE IInvParts
<1>1. Wrote(p, Token, None) /\ UNCHANGED clientVars
  BY DEF Discard, Wrote
<1>2. VInv'
  BY <1>1, WroteInv, Constants
<1>3. ClientTypes'
  BY <1>1 DEF clientVars, ClientTypes
<1>4. ServerForgets'
  BY <1>1, KeysUntouched DEF clientVars
<1>5. KeysStayAway'
  BY <1>1, CapturesUntouched DEF clientVars
<1>6. OnePaste'
  <2> SUFFICES ASSUME Token \notin excused', ~overlap'
               PROVE  OnePaste'
    BY DEF OnePaste
  <2>1. acked'[Token] = None /\ Token \notin excused /\ ~overlap
    BY <1>1, WroteEffects, Constants DEF clientVars
  <2>2. mem'[Server] # Locked => mem'[Server].data[Token] \in {None, pastes}
    BY <1>1, <2>1, WroteEffects, Constants DEF OnePaste
  <2> QED
    BY <1>1, <2>1, <2>2 DEF OnePaste, clientVars
<1> QED
  BY <1>2, <1>3, <1>4, <1>5, <1>6

LEMMA ProbeInv ==
  ASSUME IInv, NEW i \in Probes, ProbeReads(i) \/ ProbeEnds(i)
  PROVE  IInv'
<1> USE IInvParts
<1>1. UNCHANGED vaultVars /\ UNCHANGED <<capture, snaps, writer, wiping, pastes, overlap>>
  BY DEF ProbeReads, ProbeEnds
<1>2. VInv' /\ ServerForgets' /\ KeysStayAway'
  BY <1>1, VaultStutter DEF ServerForgets, KeysStayAway, vaultVars
<1>3. CASE ProbeReads(i)
  <2>1. mem[Server] # Locked /\ mem[Server].data \in Stored
    BY <1>3, Constants, CopyFacts DEF ProbeReads, Unlocked, VInv
  <2>2. mem[Server].data[Token] \in Values \cup {None}
    BY <2>1, Constants DEF Stored
  <2>3. ClientTypes'
    BY <1>1, <1>3, <2>2 DEF ProbeReads, ClientTypes
  <2>4. OnePaste'
    BY <1>1, <1>3, <2>1 DEF ProbeReads, OnePaste, ClientTypes, vaultVars
  <2> QED
    BY <1>2, <2>3, <2>4
<1>4. CASE ProbeEnds(i)
  BY <1>1, <1>2, <1>4 DEF ProbeEnds, ClientTypes, OnePaste, vaultVars
<1> QED
  BY <1>3, <1>4

LEMMA ProbePersistsInv ==
  ASSUME IInv, NEW i \in Probes, ProbePersists(i)
  PROVE  IInv'
<1> USE IInvParts
<1>1. Wrote(Server, Token, probe[i]) /\ probe[i] # None
  BY DEF ProbePersists, Wrote, ClientTypes
<1>2. VInv'
  BY <1>1, WroteInv, Constants
<1>3. ClientTypes'
  BY DEF ProbePersists, ClientTypes
<1>4. ServerForgets'
  BY <1>1, Constants, KeysUntouched DEF ProbePersists
<1>5. KeysStayAway'
  BY <1>1, Constants, CapturesUntouched DEF ProbePersists
<1>6. OnePaste'
  <2> SUFFICES ASSUME Token \notin excused', ~overlap'
               PROVE  OnePaste'
    BY DEF OnePaste
  <2>1. Token \notin excused /\ ~overlap /\ pastes' = pastes
    BY <1>1, WroteEffects, Constants DEF ProbePersists
  <2>2. probe[i] = pastes /\ \A j \in Probes : probe'[j] \in {None, pastes}
    BY <1>1, <2>1 DEF OnePaste, ProbePersists, ClientTypes
  <2>3. acked'[Token] = pastes /\ mem'[Server].data[Token] = pastes
    BY <1>1, <2>2, WroteEffects, Constants
  <2> QED
    BY <2>1, <2>2, <2>3 DEF OnePaste
<1> QED
  BY <1>2, <1>3, <1>4, <1>5, <1>6

LEMMA ProcessInv ==
  ASSUME IInv, NEW p \in Procs, Reads(p) \/ Stops(p) \/ Rotates(p) \/ Creates(p)
  PROVE  IInv'
<1> USE IInvParts
<1>1. VInv'
  BY UnlockInv, ExitInv, RotateInv, CreateInv DEF Reads, Stops, Rotates, Creates
<1>2. /\ excused \subseteq excused' /\ acked' \in {acked, Empty}
      /\ mem'[Server] \in {mem[Server], Locked} \/ mem'[Server].data \in {vault.data, Empty}
  <2>1. CASE Unlock(p)
    BY <2>1, Constants DEF Unlock, VInv, VaultTypeOK
  <2>2. CASE Exit(p)
    BY <2>2, Constants DEF Exit, VInv, VaultTypeOK
  <2>3. CASE Rotate(p)
    BY <2>3, RotateEffects
  <2>4. CASE Create(p)
    BY <2>4, CreateEffects
  <2> QED
    BY <2>1, <2>2, <2>3, <2>4 DEF Reads, Stops, Rotates, Creates
<1>3. /\ capture' = capture /\ snaps' = snaps /\ pastes' = pastes /\ overlap' = overlap
      /\ wiping' \subseteq wiping
      /\ probe' = probe \/ probe' = [i \in Probes |-> None]
      /\ writer' = writer \/ writer' = [r \in Runs |-> IF writer[r] = "none" THEN "none" ELSE "off"]
  BY DEF Reads, Stops, Rotates, Creates, clientVars
<1>4. ClientTypes'
  BY <1>3 DEF ClientTypes
<1>8. \A n \in Names : Empty[n] = None
  BY EmptyStored
<1>6. KeysStayAway'
  BY <1>2, <1>3, <1>8, Constants DEF KeysStayAway
<1>5. ServerForgets'
  <2> SUFFICES ASSUME NEW r \in Runs, r \notin excused', r \in wiping' \/ capture'[r] = "wiped",
                      mem'[Server] # Locked
               PROVE  mem'[Server].data[r] = None
    BY DEF ServerForgets
  <2>1. r \in Names /\ r \notin excused /\ (r \in wiping \/ capture[r] = "wiped")
    BY <1>2, <1>3, Constants
  <2>2. vault.data[r] = None
    BY <2>1 DEF VInv, AcknowledgedIsKept, KeysStayAway
  <2> QED
    BY <1>2, <1>8, <2>1, <2>2 DEF ServerForgets
<1>7. OnePaste'
  <2> SUFFICES ASSUME Token \notin excused', ~overlap'
               PROVE  OnePaste'
    BY DEF OnePaste
  <2>1. Token \notin excused /\ ~overlap
    BY <1>2, <1>3
  <2>2. vault.data[Token] \in {None, pastes}
    BY <2>1, Constants DEF VInv, AcknowledgedIsKept, OnePaste
  <2>3. mem'[Server] # Locked => mem'[Server].data[Token] \in {None, pastes}
    BY <1>2, <1>8, <2>1, <2>2, Constants DEF OnePaste
  <2>4. acked'[Token] \in {None, pastes}
    BY <1>2, <1>8, <2>1, Constants DEF OnePaste
  <2> QED
    BY <1>3, <2>1, <2>3, <2>4 DEF OnePaste
<1> QED
  BY <1>1, <1>4, <1>5, <1>6, <1>7

-----------------------------------------------------------------------------
LEMMA InitInv == Init => IInv
<1> SUFFICES ASSUME Init PROVE IInv
  OBVIOUS
<1> USE DEF Init, VaultInit
<1>1. VaultTypeOK
  <2>2. 0 \in 0..MaxKeys /\ 0 \in 0..MaxFailures
    BY VaultConstants
  <2> QED
    BY <2>2, EmptyStored DEF VaultTypeOK, NoKey, NoVault
<1>2. AcknowledgedIsKept /\ Carried /\ Rotators
  BY EmptyStored DEF AcknowledgedIsKept, Carried, Rotators, NoVault, NoRotation
<1>3. Keyed
  <2>1. \A p \in Procs : rot[p].step = "none" /\ mem[p] = Locked
    BY DEF NoRotation
  <2>2. Opens
    BY DEF Opens, KeyOnDisk, NoVault
  <2> QED
    BY <2>1, <2>2 DEF Keyed, Rewriting
<1>4. ClientTypes
  <2>1. 0 \in 0..MaxPastes
    BY Constants
  <2>2. probe \in [Probes -> Values \cup {None}]
    OBVIOUS
  <2>3. capture \in [Runs -> {"none", "live", "wiped"}]
    OBVIOUS
  <2>4. writer \in [Runs -> {"none", "keyed", "started", "off"}]
    OBVIOUS
  <2> QED
    BY <2>1, <2>2, <2>3, <2>4 DEF ClientTypes
<1>5. ServerForgets /\ KeysStayAway
  BY Constants DEF ServerForgets, KeysStayAway
<1>6. OnePaste
  <2>1. acked[Token] = None /\ mem[Server] = Locked /\ \A i \in Probes : probe[i] = None
    BY Constants, EmptyStored
  <2> QED
    BY <2>1 DEF OnePaste
<1> QED
  BY <1>1, <1>2, <1>3, <1>4, <1>5, <1>6, IInvParts DEF VInv

LEMMA NextInv == IInv /\ [Next]_vars => IInv'
<1> SUFFICES ASSUME IInv, [Next]_vars PROVE IInv'
  OBVIOUS
<1>1. CASE UNCHANGED vars
  <2>1. UNCHANGED vaultVars /\ UNCHANGED clientVars
    BY <1>1 DEF vars, vaultVars, clientVars
  <2> QED
    BY <2>1, IInvParts, VaultStutter
       DEF clientVars, vaultVars, ClientTypes, ServerForgets, KeysStayAway, OnePaste
<1>2. ASSUME NEW r \in Runs,
             StartKey(r) \/ StartRow(r) \/ Record(r) \/ WipeKey(r) \/ WipeRows(r)
      PROVE  IInv'
  BY <1>2, StartKeyInv, RowsInv, WipeKeyInv
<1>3. ASSUME NEW i \in Probes, ProbeReads(i) \/ ProbePersists(i) \/ ProbeEnds(i)
      PROVE  IInv'
  BY <1>3, ProbeInv, ProbePersistsInv
<1>4. ASSUME NEW p \in Procs,
             Paste(p) \/ Discard(p) \/ Reads(p) \/ Stops(p) \/ Rotates(p) \/ Creates(p)
      PROVE  IInv'
  BY <1>4, PasteInv, DiscardInv, ProcessInv
<1> QED
  BY <1>1, <1>2, <1>3, <1>4 DEF Next

LEMMA Invariance == Spec => []IInv
BY InitInv, NextInv, PTL DEF Spec

\* The files, the copies and the clients' state stay well formed.
THEOREM VaultTypes == Spec => []TypeOK
<1>1. IInv => TypeOK
  BY DEF IInv
<1> QED
  BY <1>1, Invariance, PTL

\* AgeFileVault.init, rotate_identity and _flush: the vault opens at a restart, but
\* for one being rotated or created anew, or where that was cut short or met another
\* process.
THEOREM VaultOpens == Spec => []OpensUnlessRekeyed
<1>1. IInv => OpensUnlessRekeyed
  BY DEF IInv, Keyed, OpensUnlessRekeyed
<1> QED
  BY <1>1, Invariance, PTL

\* AgeFileVault.set and delete: what they acknowledged is on disk, for any number
\* of processes, but for lost updates and failed writes of that name.
THEOREM AcknowledgedStays == Spec => []AcknowledgedIsKept
<1>1. IInv => AcknowledgedIsKept
  BY DEF IInv
<1> QED
  BY <1>1, Invariance, PTL

\* ForensicRepository.wipe shreds: no step gives a wiped capture its key again.
THEOREM WipedStaysShredded == Spec => []WipedIsShredded
<1>1. IInv => WipedIsShredded
  <2> SUFFICES ASSUME IInv, NEW r \in Runs \ excused, capture[r] = "wiped"
               PROVE  vault.data[r] = None /\ (mem[Server] # Locked => mem[Server].data[r] = None)
    BY DEF WipedIsShredded
  <2>1. acked[r] = None /\ r \in Names
    BY Constants DEF IInv, KeysStayAway
  <2> QED
    BY <2>1, Constants DEF IInv, AcknowledgedIsKept, ServerForgets
<1> QED
  BY <1>1, Invariance, PTL

\* The cloud drive's token is the operator's last paste, whatever probes refresh.
THEOREM LastPasteWins == Spec => []LastPasteStands
<1>1. IInv => LastPasteStands
  BY Constants DEF IInv, AcknowledgedIsKept, OnePaste, LastPasteStands
<1> QED
  BY <1>1, Invariance, PTL
============================================================================
