-------------------------- MODULE SystemProperties --------------------------
(***************************************************************************)
(* System properties (libc/system_properties and                           *)
(* libc/private/CachedProperty.h): one writer, init's property service,    *)
(* changes properties in shared memory, while other processes read them    *)
(* without locks, wait for changes and keep cached copies.                 *)
(*                                                                         *)
(* A value is copied by memcpy, so it is modelled as two halves that are   *)
(* copied in any order, with other steps in between.  A serial is the low  *)
(* 24 bits of the code's, odd while the property is dirty; the length      *)
(* that shares its word changes only together with them.  The k-th update  *)
(* of p writes the value <<p, k>>, so that any two differ.  The trie of    *)
(* prop_area is the set of names that are published in it.                 *)
(*                                                                         *)
(* An area exists twice when there are overrides: Update writes both.      *)
(* Steps of one process take effect in program order, which is what the    *)
(* release and acquire fences are for.                                     *)
(***************************************************************************)
EXTENDS Integers, FiniteSets

CONSTANTS
  Props,            \* Names of mutable properties, all in one area.
  Early,            \* The ones that exist from the start.
  Readers,          \* Processes that read.
  MaxUpdates        \* How many updates the writer makes.

ASSUME PropertiesAssumption ==
  /\ IsFiniteSet(Props) /\ Early \subseteq Props /\ Early # {}
  /\ MaxUpdates \in Nat

Halves == {"lo", "hi"}
NoValue == <<"none", 0>>

VARIABLES
  have_override,    \* appcompat_override_contexts_ != nullptr
  published,        \* By area, the names find() finds.
  serial,           \* prop_info::serial
  value,            \* prop_info::value
  dirty_backup,     \* dirty_backup_area()
  area_serial,      \* prop_area::serial_ of the serial area
  wpc, wprop,       \* The writer's location and property;
  todo,             \* what its memcpy still has to copy;
  updates,          \* and how many updates it has begun.
  rpc,              \* Of each reader: location,
  caches,           \* whether it uses CachedProperty,
  area, target,     \* the area it maps and the property it reads,
  rserial,          \* the serial its read relies on,
  buf,              \* value_buf,
  copying,          \* the halves still to copy,
  waitfor,          \* old_serial of its wait;
  prop_info_, cached_area_serial_, cached_property_serial_, cached_value_,
  window,           \* History: the values current since its call began,
  current           \* and the current value of each property.

shared == <<published, serial, value, dirty_backup, area_serial, current>>
writer == <<wpc, wprop, todo, updates>>
cache == <<prop_info_, cached_area_serial_, cached_property_serial_, cached_value_>>
reader == <<rpc, rserial, buf, copying, waitfor, cache>>
fixed == <<have_override, caches, area, target>>
vars == <<fixed, shared, writer, reader, window>>

(***************************************************************************)
(* A watcher waits for changes of one property, a cacher for any change of *)
(* the area.                                                               *)
(***************************************************************************)
Watchers == {r \in Readers : ~caches[r]}
Cachers == {r \in Readers : caches[r]}

Areas == {"main", "override"}
Used == IF have_override THEN Areas ELSE {"main"}
Whole(v) == [h \in Halves |-> v]
SERIAL_DIRTY(s) == s % 2 = 1

(***************************************************************************)
(* Writer: idle, backup, dirty, value, odirty, ovalue, clean, oclean,      *)
(* wake, bump, obump, wakearea in Update; oadd, oaddbump, addbump in Add.  *)
(* Readers: idle; load, copy, check in ReadMutablePropertyValue; got: a    *)
(* value is returned; wait, asleep, reload in Wait; get, find, serial in   *)
(* CachedProperty::Get.                                                    *)
(***************************************************************************)
AddLocations == {"oadd", "oaddbump", "addbump"}

WriterLocations ==
  {"idle", "backup", "dirty", "value", "odirty", "ovalue", "clean", "oclean",
   "wake", "bump", "obump", "wakearea"} \union AddLocations

ReaderLocations ==
  {"idle", "load", "copy", "check", "got", "wait", "asleep", "reload", "get", "find", "serial"}

(***************************************************************************)
(* A reader starts with no cached value, which is also what it returns for *)
(* a property that does not exist.  The serial -1 stands for the 0 of a    *)
(* new CachedProperty: a property has the serial 0 only while its value    *)
(* is empty, as the cached one.                                            *)
(***************************************************************************)
Init ==
  /\ have_override \in BOOLEAN /\ caches \in [Readers -> BOOLEAN]
  /\ area \in [Readers -> Used]
  /\ target \in {f \in [Readers -> Props] : \A r \in Watchers : f[r] \in Early}
  /\ published = [a \in Areas |-> Early]
  /\ serial = [a \in Areas |-> [p \in Props |-> 0]]
  /\ value = [a \in Areas |-> [p \in Props |-> Whole(<<p, 0>>)]]
  /\ dirty_backup = [a \in Areas |-> Whole(NoValue)]
  /\ area_serial = [a \in Areas |-> Cardinality(Early)]
  /\ current = [a \in Areas |-> [p \in Props |-> IF p \in Early THEN <<p, 0>> ELSE NoValue]]
  /\ wpc = "idle" /\ wprop \in Early /\ todo = {} /\ updates = 0
  /\ rpc = [r \in Readers |-> "idle"]
  /\ rserial = [r \in Readers |-> 0]
  /\ buf = [r \in Readers |-> Whole(NoValue)]
  /\ copying = [r \in Readers |-> {}]
  /\ waitfor = [r \in Readers |-> 0]
  /\ prop_info_ = [r \in Readers |-> FALSE]
  /\ cached_area_serial_ = [r \in Readers |-> 0]
  /\ cached_property_serial_ = [r \in Readers |-> -1]
  /\ cached_value_ = [r \in Readers |-> Whole(NoValue)]
  /\ window = [r \in Readers |-> {}]

-----------------------------------------------------------------------------
(***************************************************************************)
(* History: the value of p in area a becomes v.                            *)
(***************************************************************************)
Reading == {r \in Readers : rpc[r] \notin {"idle", "wait", "asleep", "reload"}}

BecomesCurrent(a, p, v) ==
  /\ current' = [current EXCEPT ![a][p] = v]
  /\ window' = [r \in Readers |->
                  IF r \in Reading /\ area[r] = a /\ target[r] = p
                    THEN window[r] \union {v} ELSE window[r]]

NewValue == <<wprop, serial["main"][wprop] \div 2 + 1>>

(***************************************************************************)
(* SystemProperties::Update.  First the old value goes to the backup       *)
(* areas; nothing orders these stores.  A call that fails changes nothing. *)
(***************************************************************************)
Update(p) ==
  /\ wpc = "idle" /\ p \in published["main"] /\ updates < MaxUpdates
  /\ updates' = updates + 1
  /\ wprop' = p
  /\ todo' = Used \X Halves
  /\ wpc' = "backup"
  /\ UNCHANGED <<fixed, shared, reader, window>>

CopyToBackup ==
  /\ wpc = "backup"
  /\ \E c \in todo :
       /\ dirty_backup' = [dirty_backup EXCEPT ![c[1]][c[2]] = value[c[1]][wprop][c[2]]]
       /\ todo' = todo \ {c}
  /\ wpc' = IF todo' = {} THEN "dirty" ELSE "backup"
  /\ UNCHANGED <<fixed, published, serial, value, area_serial, current, wprop, updates, reader, window>>

MarkDirty ==
  /\ wpc = "dirty"
  /\ serial' = [serial EXCEPT !["main"][wprop] = @ + 1]
  /\ todo' = {"main"} \X Halves
  /\ wpc' = "value"
  /\ UNCHANGED <<fixed, published, value, dirty_backup, area_serial, current, wprop, updates, reader, window>>

(***************************************************************************)
(* The memcpy of the new value, to the main area and to the override.      *)
(***************************************************************************)
CopyValue ==
  /\ wpc \in {"value", "ovalue"}
  /\ \E c \in todo :
       /\ value' = [value EXCEPT ![c[1]][wprop][c[2]] = NewValue]
       /\ todo' = todo \ {c}
  /\ wpc' = IF todo' # {} THEN wpc
            ELSE IF wpc = "value" /\ have_override THEN "odirty" ELSE "clean"
  /\ UNCHANGED <<fixed, published, serial, dirty_backup, area_serial, current, wprop, updates, reader, window>>

MarkOverrideDirty ==
  /\ wpc = "odirty"
  /\ serial' = [serial EXCEPT !["override"][wprop] = serial["main"][wprop]]
  /\ todo' = {"override"} \X Halves
  /\ wpc' = "ovalue"
  /\ UNCHANGED <<fixed, published, value, dirty_backup, area_serial, current, wprop, updates, reader, window>>

MarkClean ==
  /\ wpc = "clean"
  /\ serial' = [serial EXCEPT !["main"][wprop] = @ + 1]
  /\ BecomesCurrent("main", wprop, NewValue)
  /\ wpc' = IF have_override THEN "oclean" ELSE "wake"
  /\ UNCHANGED <<fixed, published, value, dirty_backup, area_serial, wprop, todo, updates, reader>>

MarkOverrideClean ==
  /\ wpc = "oclean"
  /\ serial' = [serial EXCEPT !["override"][wprop] = serial["main"][wprop]]
  /\ BecomesCurrent("override", wprop, current["main"][wprop])
  /\ wpc' = "wake"
  /\ UNCHANGED <<fixed, published, value, dirty_backup, area_serial, wprop, todo, updates, reader>>

Wake(sleepers) ==
  rpc' = [r \in Readers |-> IF r \in sleepers /\ rpc[r] = "asleep" THEN "reload" ELSE rpc[r]]

(***************************************************************************)
(* A faulty variant without the wake.                                      *)
(***************************************************************************)
WakeWatchersNot ==
  /\ wpc = "wake"
  /\ wpc' = "bump"
  /\ UNCHANGED <<fixed, shared, wprop, todo, updates, reader, window>>

(***************************************************************************)
(* The futex_wake on the main area's prop_info.                            *)
(***************************************************************************)
WakeWatchers ==
  /\ wpc = "wake"
  /\ Wake({r \in Watchers : area[r] = "main" /\ target[r] = wprop})
  /\ wpc' = "bump"
  /\ UNCHANGED <<fixed, shared, wprop, todo, updates, rserial, buf, copying, waitfor, cache, window>>

(***************************************************************************)
(* A faulty variant in which the serial counts updates only.               *)
(***************************************************************************)
BumpUpdatesOnly ==
  /\ wpc \in {"bump", "addbump"}
  /\ area_serial' = [area_serial EXCEPT !["main"] = @ + IF wpc = "bump" THEN 1 ELSE 0]
  /\ wpc' = IF wpc = "bump" /\ have_override THEN "obump" ELSE "wakearea"
  /\ UNCHANGED <<fixed, published, serial, value, dirty_backup, current, wprop, todo, updates, reader, window>>

(***************************************************************************)
(* The serial of the area, at the end of Update and of Add.  Update gives  *)
(* the override the next one.                                              *)
(***************************************************************************)
Bump ==
  /\ wpc \in {"bump", "addbump"}
  /\ area_serial' = [area_serial EXCEPT !["main"] = @ + 1]
  /\ wpc' = IF wpc = "bump" /\ have_override THEN "obump" ELSE "wakearea"
  /\ UNCHANGED <<fixed, published, serial, value, dirty_backup, current, wprop, todo, updates, reader, window>>

BumpOverride ==
  /\ wpc = "obump"
  /\ area_serial' = [area_serial EXCEPT !["override"] = area_serial["main"] + 1]
  /\ wpc' = "wakearea"
  /\ UNCHANGED <<fixed, published, serial, value, dirty_backup, current, wprop, todo, updates, reader, window>>

WakeAny ==
  /\ wpc = "wakearea"
  /\ Wake({r \in Cachers : area[r] = "main"})
  /\ wpc' = "idle"
  /\ UNCHANGED <<fixed, shared, wprop, todo, updates, rserial, buf, copying, waitfor, cache, window>>

(***************************************************************************)
(* SystemProperties::Add: the new prop_info is complete before the trie    *)
(* links it.  A name that exists keeps its value, and the areas count one  *)
(* more change.  A full area makes the call fail without a change.         *)
(***************************************************************************)
Publish(a, p) ==
  /\ published' = [published EXCEPT ![a] = @ \union {p}]
  /\ IF p \in published[a] THEN UNCHANGED <<current, window>>
                           ELSE BecomesCurrent(a, p, <<p, 0>>)

Add(p) ==
  /\ wpc = "idle"
  /\ updates' = IF p \in published["main"] THEN updates + 1 ELSE updates
  /\ updates' <= MaxUpdates
  /\ wprop' = p
  /\ Publish("main", p)
  /\ wpc' = IF have_override THEN "oadd" ELSE "addbump"
  /\ UNCHANGED <<fixed, serial, value, dirty_backup, area_serial, todo, reader>>

AddOverride ==
  /\ wpc = "oadd"
  /\ Publish("override", wprop)
  /\ wpc' = IF wprop \in published["override"] THEN "addbump" ELSE "oaddbump"
  /\ UNCHANGED <<fixed, serial, value, dirty_backup, area_serial, wprop, todo, updates, reader>>

BumpAddedOverride ==
  /\ wpc = "oaddbump"
  /\ area_serial' = [area_serial EXCEPT !["override"] = @ + 1]
  /\ wpc' = "addbump"
  /\ UNCHANGED <<fixed, published, serial, value, dirty_backup, current, wprop, todo, updates, reader, window>>

-----------------------------------------------------------------------------
Goto(r, l) == rpc' = [rpc EXCEPT ![r] = l]
Serial(r) == serial[area[r]][target[r]]

(***************************************************************************)
(* A call begins: __system_property_read_callback by a watcher, Get by a   *)
(* cacher.  While an Add is under way the property may be taken for        *)
(* missing.                                                                *)
(***************************************************************************)
Call(r) ==
  /\ rpc[r] = "idle"
  /\ window' = [window EXCEPT ![r] =
       {current[area[r]][target[r]]} \union
       IF wpc \in AddLocations /\ wprop = target[r] THEN {NoValue} ELSE {}]
  /\ Goto(r, IF r \in Watchers THEN "load" ELSE IF prop_info_[r] THEN "serial" ELSE "get")
  /\ UNCHANGED <<fixed, shared, writer, rserial, buf, copying, waitfor, cache>>

(***************************************************************************)
(* ReadMutablePropertyValue.                                               *)
(***************************************************************************)
LoadSerial(r) ==
  /\ rpc[r] = "load"
  /\ rserial' = [rserial EXCEPT ![r] = Serial(r)]
  /\ copying' = [copying EXCEPT ![r] = Halves]
  /\ Goto(r, "copy")
  /\ UNCHANGED <<fixed, shared, writer, buf, waitfor, cache, window>>

(***************************************************************************)
(* A faulty variant that never looks at the backup area.                   *)
(***************************************************************************)
CopyHalfOfValue(r) ==
  /\ rpc[r] = "copy"
  /\ \E h \in copying[r] :
       /\ buf' = [buf EXCEPT ![r][h] = value[area[r]][target[r]][h]]
       /\ copying' = [copying EXCEPT ![r] = @ \ {h}]
  /\ Goto(r, IF copying'[r] = {} THEN "check" ELSE "copy")
  /\ UNCHANGED <<fixed, shared, writer, rserial, waitfor, cache, window>>

CopyHalf(r) ==
  /\ rpc[r] = "copy"
  /\ \E h \in copying[r] :
       /\ buf' = [buf EXCEPT ![r][h] =
            IF SERIAL_DIRTY(rserial[r]) THEN dirty_backup[area[r]][h]
                                        ELSE value[area[r]][target[r]][h]]
       /\ copying' = [copying EXCEPT ![r] = @ \ {h}]
  /\ Goto(r, IF copying'[r] = {} THEN "check" ELSE "copy")
  /\ UNCHANGED <<fixed, shared, writer, rserial, waitfor, cache, window>>

(***************************************************************************)
(* The callback: the client has the value, a CachedProperty keeps it.      *)
(***************************************************************************)
Deliver(r) ==
  /\ Goto(r, "got")
  /\ IF r \in Watchers
       THEN UNCHANGED cache
       ELSE /\ cached_property_serial_' = [cached_property_serial_ EXCEPT ![r] = rserial[r]]
            /\ cached_value_' = [cached_value_ EXCEPT ![r] = buf[r]]
            /\ UNCHANGED <<prop_info_, cached_area_serial_>>

(***************************************************************************)
(* A faulty variant that does not look at the serial again.                *)
(***************************************************************************)
CheckNot(r) ==
  /\ rpc[r] = "check"
  /\ Deliver(r)
  /\ UNCHANGED <<fixed, shared, writer, rserial, buf, copying, waitfor, window>>

Check(r) ==
  /\ rpc[r] = "check"
  /\ IF Serial(r) = rserial[r]
       THEN /\ Deliver(r)
            /\ UNCHANGED <<rserial, copying>>
       ELSE /\ rserial' = [rserial EXCEPT ![r] = Serial(r)]
            /\ copying' = [copying EXCEPT ![r] = Halves]
            /\ Goto(r, "copy")
            /\ UNCHANGED cache
  /\ UNCHANGED <<fixed, shared, writer, buf, waitfor, window>>

(***************************************************************************)
(* CachedProperty::Get without a prop_info: look for it again if the area  *)
(* has changed ...                                                         *)
(***************************************************************************)
GetAreaSerial(r) ==
  /\ rpc[r] = "get"
  /\ rserial' = [rserial EXCEPT ![r] = area_serial[area[r]]]
  /\ Goto(r, IF area_serial[area[r]] # cached_area_serial_[r] THEN "find" ELSE "got")
  /\ UNCHANGED <<fixed, shared, writer, buf, copying, waitfor, cache, window>>

Find(r) ==
  /\ rpc[r] = "find"
  /\ prop_info_' = [prop_info_ EXCEPT ![r] = target[r] \in published[area[r]]]
  /\ cached_area_serial_' = [cached_area_serial_ EXCEPT ![r] = rserial[r]]
  /\ Goto(r, IF prop_info_'[r] THEN "serial" ELSE "got")
  /\ UNCHANGED <<fixed, shared, writer, rserial, buf, copying, waitfor,
                 cached_property_serial_, cached_value_, window>>

(***************************************************************************)
(* ... and read it again if its serial has changed.                        *)
(***************************************************************************)
GetSerial(r) ==
  /\ rpc[r] = "serial"
  /\ Goto(r, IF Serial(r) # cached_property_serial_[r] THEN "load" ELSE "got")
  /\ UNCHANGED <<fixed, shared, writer, rserial, buf, copying, waitfor, cache, window>>

(***************************************************************************)
(* The client then waits: a watcher for the serial it has just read to     *)
(* change, a cacher for the area's.                                        *)
(***************************************************************************)
StartWait(r) ==
  /\ rpc[r] = "got"
  /\ waitfor' = IF r \in Watchers THEN [waitfor EXCEPT ![r] = rserial[r]] ELSE waitfor
  /\ window' = [window EXCEPT ![r] = {}]
  /\ Goto(r, "wait")
  /\ UNCHANGED <<fixed, shared, writer, rserial, buf, copying, cache>>

Awaited(r) == IF r \in Watchers THEN Serial(r) ELSE area_serial[area[r]]

FutexWait(r) ==
  /\ rpc[r] = "wait"
  /\ Goto(r, IF Awaited(r) = waitfor[r] THEN "asleep" ELSE "reload")
  /\ UNCHANGED <<fixed, shared, writer, rserial, buf, copying, waitfor, cache, window>>

ReloadSerial(r) ==
  /\ rpc[r] = "reload"
  /\ waitfor' = [waitfor EXCEPT ![r] = Awaited(r)]
  /\ Goto(r, IF Awaited(r) = waitfor[r] THEN "wait" ELSE "idle")
  /\ UNCHANGED <<fixed, shared, writer, rserial, buf, copying, cache, window>>

Interrupt(r) ==
  /\ rpc[r] = "asleep"
  /\ Goto(r, "reload")
  /\ UNCHANGED <<fixed, shared, writer, rserial, buf, copying, waitfor, cache, window>>

(***************************************************************************)
(* Wait with a relative_timeout returns false.                             *)
(***************************************************************************)
Timeout(r) ==
  /\ r \in Watchers /\ rpc[r] = "asleep"
  /\ Goto(r, "idle")
  /\ UNCHANGED <<fixed, shared, writer, rserial, buf, copying, waitfor, cache, window>>

-----------------------------------------------------------------------------
WriterStep ==
  \/ CopyToBackup \/ MarkDirty \/ CopyValue \/ MarkOverrideDirty \/ MarkClean \/ MarkOverrideClean
  \/ WakeWatchers \/ Bump \/ BumpOverride \/ WakeAny \/ AddOverride \/ BumpAddedOverride

ReaderStep(r) ==
  \/ Call(r) \/ LoadSerial(r) \/ CopyHalf(r) \/ Check(r) \/ GetAreaSerial(r) \/ Find(r)
  \/ GetSerial(r) \/ StartWait(r) \/ FutexWait(r) \/ ReloadSerial(r)

Next ==
  \/ \E p \in Props : Update(p) \/ Add(p)
  \/ WriterStep
  \/ \E r \in Readers : ReaderStep(r) \/ Interrupt(r) \/ Timeout(r)

Spec == Init /\ [][Next]_vars

(***************************************************************************)
(* The writer finishes what it began, and clients go on.                   *)
(***************************************************************************)
FairSpec == Spec /\ WF_vars(WriterStep) /\ \A r \in Readers : WF_vars(ReaderStep(r))

-----------------------------------------------------------------------------
Values == (Props \X Nat) \union {NoValue}

WriterTypeOK ==
  /\ have_override \in BOOLEAN
  /\ published \in [Areas -> SUBSET Props]
  /\ serial \in [Areas -> [Props -> Nat]]
  /\ value \in [Areas -> [Props -> [Halves -> Values]]]
  /\ dirty_backup \in [Areas -> [Halves -> Values]]
  /\ area_serial \in [Areas -> Nat]
  /\ wpc \in WriterLocations /\ wprop \in Props
  /\ todo \subseteq Areas \X Halves
  /\ updates \in 0 .. MaxUpdates
  /\ current \in [Areas -> [Props -> Values]]

ReaderTypeOK ==
  /\ caches \in [Readers -> BOOLEAN]
  /\ area \in [Readers -> Areas] /\ target \in [Readers -> Props]
  /\ rpc \in [Readers -> ReaderLocations]
  /\ rserial \in [Readers -> Nat]
  /\ buf \in [Readers -> [Halves -> Values]]
  /\ copying \in [Readers -> SUBSET Halves]
  /\ waitfor \in [Readers -> Nat]
  /\ prop_info_ \in [Readers -> BOOLEAN]
  /\ cached_area_serial_ \in [Readers -> Nat]
  /\ cached_property_serial_ \in [Readers -> Nat \union {-1}]
  /\ cached_value_ \in [Readers -> [Halves -> Values]]
  /\ window \in [Readers -> SUBSET Values]

TypeOK == WriterTypeOK /\ ReaderTypeOK

(***************************************************************************)
(* "Calls callback with a consistent trio of name, value, and serial       *)
(* number" (sys/system_properties.h): the value is whole, of the right     *)
(* property, and the one that belongs to the serial, also when it came     *)
(* from the backup area that all properties of the area share.  So is what *)
(* CachedProperty keeps.                                                   *)
(***************************************************************************)
Trio(r) ==
  IF r \in Watchers
    THEN buf[r] = Whole(<<target[r], rserial[r] \div 2>>)
    ELSE prop_info_[r] => cached_value_[r] = Whole(<<target[r], cached_property_serial_[r] \div 2>>)

ConsistentTrio == \A r \in Readers : rpc[r] = "got" => Trio(r)

(***************************************************************************)
(* A value returned by a read, or by CachedProperty::Get from its cache,   *)
(* was the property's value at some time during the call.                  *)
(***************************************************************************)
WasCurrent(r) == \E v \in window[r] : Whole(v) = IF r \in Watchers THEN buf[r] ELSE cached_value_[r]

ReadsAreCurrent == \A r \in Readers : rpc[r] = "got" => WasCurrent(r)

(***************************************************************************)
(* The inductive invariant.  The serial of a property is odd while Update  *)
(* is between its two stores, first in one area and then in the other.     *)
(***************************************************************************)
Dirty(a) == IF a = "main" THEN {"value", "odirty", "ovalue", "clean"} ELSE {"ovalue", "clean", "oclean"}

SerialsInStep ==
  /\ \A a \in Used, p \in Props : SERIAL_DIRTY(serial[a][p]) <=> wprop = p /\ wpc \in Dirty(a)
  /\ have_override => \A p \in Props :
       serial["main"][p] =
         serial["override"][p] + IF wprop = p /\ wpc \in {"value", "odirty", "oclean"} THEN 1 ELSE 0

(***************************************************************************)
(* A half of a value is the one of the serial, or the next one already;    *)
(* the backup has the one of the serial, from its copy to the last store.  *)
(***************************************************************************)
Copied(a, h) == <<a, h>> \notin todo

Renewed(a, h) ==
  IF a = "main" THEN wpc \in {"odirty", "ovalue", "clean"} \/ (wpc = "value" /\ Copied(a, h))
                ELSE wpc \in {"clean", "oclean"} \/ (wpc = "ovalue" /\ Copied(a, h))

BackedUp(a, h) ==
  \/ wpc \in {"dirty"} \union Dirty("main") \union Dirty(a)
  \/ wpc = "backup" /\ Copied(a, h)

ValuesInStep ==
  \A a \in Used, p \in Props, h \in Halves :
    value[a][p][h] = <<p, serial[a][p] \div 2 + IF wprop = p /\ Renewed(a, h) THEN 1 ELSE 0>>

BackupsInStep ==
  \A a \in Used, h \in Halves :
    BackedUp(a, h) => dirty_backup[a][h] = <<wprop, serial[a][wprop] \div 2>>

TodoInStep ==
  /\ wpc = "value" => todo \subseteq {"main"} \X Halves
  /\ wpc = "ovalue" => todo \subseteq {"override"} \X Halves
  /\ wpc = "backup" => todo \subseteq Used \X Halves
  /\ wpc \in {"odirty", "ovalue", "oclean", "obump", "oadd", "oaddbump"} => have_override

(***************************************************************************)
(* What a reader has copied is right if the serial it relies on is still   *)
(* there.  What CachedProperty keeps is right for the serial it keeps.     *)
(***************************************************************************)
CopiesInStep(r) ==
  /\ rpc[r] \in {"copy", "check"} =>
       /\ rserial[r] <= Serial(r)
       /\ rserial[r] = Serial(r) =>
            \A h \in Halves \ copying[r] : buf[r][h] = <<target[r], rserial[r] \div 2>>
  /\ rpc[r] = "check" => copying[r] = {}
  /\ \A h \in Halves :
       cached_value_[r][h] = IF cached_property_serial_[r] = -1 THEN NoValue
                             ELSE <<target[r], cached_property_serial_[r] \div 2>>

(***************************************************************************)
(* Who reads a property has found it.                                      *)
(***************************************************************************)
FoundFirst(r) ==
  /\ area[r] \in Used /\ (r \in Watchers => target[r] \in Early)
  /\ rpc[r] \in {"get", "find", "serial"} => r \in Cachers
  /\ rpc[r] \in {"get", "find"} => ~prop_info_[r]
  /\ rpc[r] \in {"load", "copy", "check", "serial"} => r \in Watchers \/ prop_info_[r]
  /\ prop_info_[r] => target[r] \in published[area[r]]
  /\ ~prop_info_[r] => cached_property_serial_[r] = -1
  /\ rpc[r] = "got" /\ prop_info_[r] => r \in Watchers \/ cached_property_serial_[r] # -1

(***************************************************************************)
(* The current value is that of the serial, both areas have the same       *)
(* names, and the serial of the override area is at most one ahead, except *)
(* within an operation.                                                    *)
(***************************************************************************)
CurrentInStep ==
  \A a \in Used, p \in Props :
    current[a][p] = IF p \in published[a] THEN <<p, serial[a][p] \div 2>> ELSE NoValue

PublishedInStep ==
  /\ \A a \in Areas : Early \subseteq published[a]
  /\ wprop \in published["main"]
  /\ have_override =>
       published["main"] = published["override"] \union IF wpc = "oadd" THEN {wprop} ELSE {}
  /\ \A a \in Used, p \in Props : p \notin published[a] => serial[a][p] = 0

AreasInStep ==
  have_override =>
    area_serial["override"] <=
      area_serial["main"] + IF wpc = "addbump" THEN 2 ELSE IF wpc = "obump" THEN 0 ELSE 1

(***************************************************************************)
(* The serial of an area tells that a property has been added to it since  *)
(* CachedProperty looked, unless the Add is still under way.               *)
(***************************************************************************)
BeingAdded(a, p) == wprop = p /\ wpc \in IF a = "main" THEN AddLocations ELSE {"oaddbump"}

AdditionsSeen(r) ==
  /\ cached_area_serial_[r] <= area_serial[area[r]]
  /\ rpc[r] = "find" => rserial[r] <= area_serial[area[r]]
  /\ ~prop_info_[r] /\ target[r] \in published[area[r]] /\ ~BeingAdded(area[r], target[r]) =>
       cached_area_serial_[r] < area_serial[area[r]]

(***************************************************************************)
(* A call has seen every value that has been current since it began, and a *)
(* call that finds no property began when there was none or its Add was    *)
(* under way.                                                              *)
(***************************************************************************)
WindowExact(r) ==
  /\ r \in Reading => current[area[r]][target[r]] \in window[r]
  /\ rpc[r] = "get" => NoValue \in window[r] \/ cached_area_serial_[r] < area_serial[area[r]]

WriterInv ==
  /\ SerialsInStep /\ ValuesInStep /\ BackupsInStep /\ TodoInStep
  /\ CurrentInStep /\ PublishedInStep /\ AreasInStep

ReaderInv(r) ==
  /\ CopiesInStep(r) /\ FoundFirst(r) /\ AdditionsSeen(r) /\ WindowExact(r)
  /\ rpc[r] = "got" => Trio(r) /\ WasCurrent(r)

Inv == TypeOK /\ WriterInv /\ \A r \in Readers : ReaderInv(r)

(***************************************************************************)
(* A client of the main area that reads a property and waits on the serial *)
(* it was given, dirty or not, ends up with the last value.                *)
(***************************************************************************)
WatchersCatchUp ==
  <>[](\A r \in Watchers :
         area[r] = "main" => buf[r] = Whole(current["main"][target[r]]))

(***************************************************************************)
(* A client of the main area that calls CachedProperty::Get whenever the   *)
(* area's serial changes ends up with the last value, also of a property   *)
(* that was added after its first call.                                    *)
(***************************************************************************)
CachesCatchUp ==
  <>[](\A r \in Cachers :
         area[r] = "main" => cached_value_[r] = Whole(current["main"][target[r]]))

(***************************************************************************)
(* Neither kind of client of the main area misses the last value.          *)
(***************************************************************************)
ClientsCatchUp == WatchersCatchUp /\ CachesCatchUp
=============================================================================
