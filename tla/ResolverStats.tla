--------------------------- MODULE ResolverStats ---------------------------
(***************************************************************************)
(* The name servers of one network and the reachability samples kept for    *)
(* each of them (libc/dns/resolv/res_cache.c), as res_nsend (res_send.c)    *)
(* uses them: copy the servers, read the statistics with their revision,    *)
(* query a server and record how it answered.  netd replaces the servers,   *)
(* flushes or deletes the network's cache meanwhile.  One step is one       *)
(* critical section of _res_cache_list_lock.                                *)
(***************************************************************************)
EXTENDS Naturals, Sequences, SequencesExt

CONSTANTS
  Threads,
  Servers,
  MAXNS,          \* name servers of a network
  MaxSamples,     \* the values max_samples may be given
  MaxRevision     \* bound on revision_id

VARIABLES
  exists,         \* the network has a resolv_cache_info
  nameservers,
  max_samples,
  nsstats,        \* per slot: samples (which server each measured), count, next
  revision_id,
  pc,
  statp,          \* each thread's copy of the servers
  params,         \* and of max_samples and revision_id
  slot            \* the next slot whose server it may query

info == <<exists, nameservers, max_samples, nsstats, revision_id>>
vars == <<info, pc, statp, params, slot>>

Slots == 1 .. MAXNS
Lists == {s \in SeqOf(Servers, MAXNS) : s # <<>> /\ IsInjective(s)}
NoSamples == [samples |-> <<>>, count |-> 0, next |-> 1]

Init ==
  /\ exists = FALSE /\ nameservers = <<>> /\ max_samples = 0
  /\ nsstats = [ns \in Slots |-> NoSamples]
  /\ revision_id = 0
  /\ pc = [t \in Threads |-> "idle"]
  /\ statp = [t \in Threads |-> <<>>]
  /\ params = [t \in Threads |-> [max_samples |-> 0, revision_id |-> 0]]
  /\ slot = [t \in Threads |-> 1]

(* _res_cache_clear_stats_locked: the loop never uses its index.            *)
clear_stats(stats) == [stats EXCEPT ![1].count = 0, ![1].next = 1]

(* The part of _free_nameservers_locked that clears the samples.            *)
free_nameservers(stats) ==
  clear_stats([ns \in Slots |-> IF ns \in DOMAIN nameservers
                                THEN [stats[ns] EXCEPT !.count = 0, !.next = 1] ELSE stats[ns]])

(* _resolv_is_nameservers_equal_locked, on lists without duplicates.        *)
nameservers_equal(list) == Len(list) = Len(nameservers) /\ ToSet(list) = ToSet(nameservers)

SetNameservers(list, max) ==
  /\ exists' = TRUE
  /\ max_samples' = max
  /\ \/ /\ ~nameservers_equal(list)
        /\ nameservers' = list
        /\ nsstats' = clear_stats(free_nameservers(nsstats))
        /\ revision_id' = revision_id + 2
     \/ /\ nameservers_equal(list)
        /\ nsstats' = IF max # max_samples THEN clear_stats(nsstats) ELSE nsstats
        /\ revision_id' = IF max # max_samples THEN revision_id + 1 ELSE revision_id
        /\ UNCHANGED nameservers
  /\ revision_id' <= MaxRevision
  /\ UNCHANGED <<pc, statp, params, slot>>

FlushCache ==
  /\ exists
  /\ nsstats' = clear_stats(nsstats)
  /\ UNCHANGED <<exists, nameservers, max_samples, revision_id, pc, statp, params, slot>>

DeleteCache ==
  /\ exists
  /\ exists' = FALSE /\ nameservers' = <<>> /\ max_samples' = 0
  /\ nsstats' = [ns \in Slots |-> NoSamples]
  /\ revision_id' = 0
  /\ UNCHANGED <<pc, statp, params, slot>>

(* _resolv_populate_res_for_net, on a miss in a known network.              *)
Populate(t) ==
  /\ pc[t] = "idle" /\ exists
  /\ statp' = [statp EXCEPT ![t] = nameservers]
  /\ pc' = [pc EXCEPT ![t] = "populated"]
  /\ UNCHANGED <<info, params, slot>>

(* _resolv_cache_get_resolver_stats; there may be nothing to read by now,   *)
(* and then no sample is recorded.                                          *)
GetStats(t) ==
  /\ pc[t] = "populated"
  /\ params' = [params EXCEPT ![t] = [max_samples |-> max_samples, revision_id |-> revision_id]]
  /\ pc' = [pc EXCEPT ![t] = IF exists THEN "querying" ELSE "idle"]
  /\ slot' = [slot EXCEPT ![t] = 1]
  /\ UNCHANGED <<info, statp>>

(* _resolv_cache_add_resolver_stats_sample and                              *)
(* _res_cache_add_stats_sample_locked: the server in slot ns answered or    *)
(* did not; the servers are asked in order, those not usable left out.      *)
Added(stats, server, max) ==
  [samples |-> [i \in 1 .. (IF stats.next > Len(stats.samples) THEN stats.next ELSE Len(stats.samples)) |->
                  IF i = stats.next THEN server ELSE stats.samples[i]],
   count |-> IF stats.count < max THEN stats.count + 1 ELSE stats.count,
   next |-> IF stats.next >= max THEN 1 ELSE stats.next + 1]

AddSample(t, ns) ==
  /\ pc[t] = "querying" /\ ns \in DOMAIN statp[t] /\ ns >= slot[t]
  /\ slot' = [slot EXCEPT ![t] = ns + 1]
  /\ nsstats' = IF exists /\ revision_id = params[t].revision_id /\ params[t].max_samples > 0
                THEN [nsstats EXCEPT ![ns] = Added(nsstats[ns], statp[t][ns], params[t].max_samples)]
                ELSE nsstats
  /\ UNCHANGED <<exists, nameservers, max_samples, revision_id, pc, statp, params>>

Return(t) ==
  /\ pc[t] = "querying"
  /\ pc' = [pc EXCEPT ![t] = "idle"]
  /\ UNCHANGED <<info, statp, params, slot>>

Next ==
  \/ \E list \in Lists, max \in MaxSamples : SetNameservers(list, max)
  \/ FlushCache \/ DeleteCache
  \/ \E t \in Threads : Populate(t) \/ GetStats(t) \/ (\E ns \in Slots : AddSample(t, ns)) \/ Return(t)

Spec == Init /\ [][Next]_vars

-----------------------------------------------------------------------------
(***************************************************************************)
(* The samples counted for a slot measured the server that is in the slot:  *)
(* the revision keeps a request that straddles a change of the servers from *)
(* writing its samples back.                                                *)
(***************************************************************************)
SamplesOfTheirServer ==
  \A ns \in DOMAIN nameservers : \A i \in 1 .. nsstats[ns].count : nsstats[ns].samples[i] = nameservers[ns]

(***************************************************************************)
(* No more samples are counted for a server than max_samples allows, since  *)
(* a change of max_samples clears them.                                     *)
(***************************************************************************)
CountWithinMax == \A ns \in Slots : nsstats[ns].count <= max_samples
=============================================================================
