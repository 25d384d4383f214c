------------------------------ MODULE Settings ------------------------------
(***************************************************************************)
(* A Settings object over the text of its file: the stack of groups and    *)
(* arrays that puts a prefix before every key, the changes kept in memory, *)
(* and the write that a change schedules for the next pass of the event    *)
(* loop.  sync() reads and writes INI text, through IniText; here it is    *)
(* one step, which may fail where it checks, reads or writes the file      *)
(* (SettingsFile is about its steps, and about other processes).           *)
(*                                                                         *)
(* A person may edit the file.  When the object is destroyed its store     *)
(* goes too: no other object shares it.  A file that is not there reads as *)
(* one that is empty.                                                      *)
(***************************************************************************)
EXTENDS IniText

CONSTANTS
    About,      \* what a behaviour is about
    Inputs,     \* for each, the inputs of the calls, and its first ones
    MaxObjects, \* bound: objects, one after the other
    MaxEdits    \* bound: times a person saves the file

ASSUME SettingsInputs == MaxObjects \in Nat /\ MaxEdits \in Nat /\ DOMAIN Inputs = About

VARIABLES
    about,
    file,            \* the text on disk
    edited,          \* it is not the file of mStamp
    mOriginalKeys,   \* what the file had,
    mAddedKeys,      \* and what was set
    mRemovedKeys,    \* and removed since
    mNextPosition,
    mGroupStack,
    mGroupPrefix,
    mStatus,
    mPendingChanges,
    posted,          \* the call of update() that callLater() keeps
    refused,         \* history: the loop took no such call for mPendingChanges
    open,            \* there is an object
    failed,          \* the last sync() failed
    lost,            \* changes went with an object that did not try to write them
    calls, objects, edits

disk == <<file, edited>>
store == <<mOriginalKeys, mAddedKeys, mRemovedKeys, mNextPosition>>
groups == <<mGroupStack, mGroupPrefix>>
scheduled == <<mPendingChanges, posted, refused>>
results == <<mStatus, failed, lost>>
bounds == <<calls, objects, edits>>
vars == <<about, disk, store, groups, scheduled, results, open, bounds>>

NoKeys == [k \in {} |-> k]
FirstNew == 1000
Input == Inputs[about]

\* Names joined by single slashes.
NormalizedKey(key) ==
    LET t == Trimmed(key, {Slash}) IN
    FlattenSeq([i \in DOMAIN t |-> IF t[i] = Slash /\ t[i - 1] = Slash THEN <<>> ELSE <<t[i]>>])

Group(name) == [name |-> name, number |-> -1, max |-> -1]
IsArray(group) == group.number # -1
GroupText(group) ==
    IF group.number > 0 THEN group.name \o <<Slash>> \o Digits(group.number) ELSE group.name

Unsaved == mAddedKeys # NoKeys \/ mRemovedKeys # {}

\* mergedKeys(): a key that the file has keeps its place.
Merged(original) ==
    [k \in (DOMAIN original \ mRemovedKeys) \cup DOMAIN mAddedKeys |->
        IF k \notin DOMAIN mAddedKeys THEN original[k]
        ELSE IF k \in DOMAIN original \ mRemovedKeys
             THEN [mAddedKeys[k] EXCEPT !.position = original[k].position]
             ELSE mAddedKeys[k]]

Present == (DOMAIN mOriginalKeys \ mRemovedKeys) \cup DOMAIN mAddedKeys

\* Whether the group has such a key.
Lookup(key) == NormalizedKey(key) # <<>> /\ mGroupPrefix \o NormalizedKey(key) \in Present

Relative(prefix) ==
    {SubSeq(k, Len(prefix) + 1, Len(k)) : k \in {j \in Present : IsPrefix(prefix, j)}}
AllKeys == Relative(mGroupPrefix)
ChildKeys == {k \in AllKeys : ~HasSection(k)}
ChildGroups == {SectionOf(k) : k \in AllKeys \ ChildKeys}

-----------------------------------------------------------------------------
(* sync(), and its three ways to fail. *)

\* The file is read again when it is not the one of mStamp, and whenever there
\* is nothing to write.
Known ==
    IF ~Unsaved \/ edited THEN With(Read(file), LAMBDA r : [keys |-> r.keys, ok |-> r.ok])
                          ELSE [keys |-> mOriginalKeys, ok |-> TRUE]

\* The first error stays.
SetStatus(status) == mStatus' = IF mStatus = "NoError" THEN status ELSE mStatus
FormatOf(known) == IF known.ok THEN "NoError" ELSE "FormatError"

\* Nothing to write, and the file is as it was.
SyncNothing ==
    /\ ~Unsaved /\ ~edited /\ file # <<>>
    /\ failed' = FALSE
    /\ UNCHANGED <<disk, store, mStatus>>

SyncReads ==
    /\ ~Unsaved /\ (edited \/ file = <<>>)
    /\ failed' = FALSE
    /\ \E known \in {Known} :
          /\ mOriginalKeys' = known.keys
          /\ SetStatus(FormatOf(known))
    /\ edited' = FALSE
    /\ UNCHANGED <<file, mAddedKeys, mRemovedKeys, mNextPosition>>

Replace(original) ==
    /\ failed' = FALSE
    /\ mOriginalKeys' = Merged(original)
    /\ file' = Write(mOriginalKeys')
    /\ mAddedKeys' = NoKeys /\ mRemovedKeys' = {}
    /\ edited' = FALSE
    /\ UNCHANGED mNextPosition

\* SyncWrites() on top of the keys the file had when it was last read.
SyncOverwrites ==
    /\ Unsaved
    /\ Replace(mOriginalKeys)
    /\ UNCHANGED mStatus

SyncWrites ==
    /\ Unsaved
    /\ \E known \in {Known} : Replace(known.keys) /\ SetStatus(FormatOf(known))

\* The file may not be written, or another process keeps the lock.
SyncRefused ==
    /\ Unsaved
    /\ SetStatus("AccessError")
    /\ failed' = TRUE
    /\ UNCHANGED <<disk, store>>

\* What was known is forgotten before the file is read.
SyncCannotRead ==
    /\ edited /\ file # <<>>
    /\ SetStatus("AccessError")
    /\ failed' = TRUE
    /\ mOriginalKeys' = NoKeys
    /\ UNCHANGED <<disk, mAddedKeys, mRemovedKeys, mNextPosition>>

SyncCannotWrite ==
    /\ Unsaved
    /\ \E known \in {Known} :
          /\ SetStatus(IF known.ok THEN "AccessError" ELSE "FormatError")
          /\ mOriginalKeys' = known.keys
    /\ failed' = TRUE
    /\ edited' = FALSE
    /\ UNCHANGED <<file, mAddedKeys, mRemovedKeys, mNextPosition>>

\* Settings::sync().
SyncNow ==
    /\ \/ SyncNothing \/ SyncReads \/ SyncWrites
       \/ SyncRefused \/ SyncCannotRead \/ SyncCannotWrite
    /\ mPendingChanges' = FALSE /\ refused' = FALSE

-----------------------------------------------------------------------------
(* The calls of a program. *)

Call ==
    /\ open
    /\ calls < Input.calls
    /\ calls' = calls + 1
    /\ UNCHANGED <<about, objects, edits, open>>

\* RequestUpdate() that takes a pending change for a scheduled one.
RequestUpdateNot == UNCHANGED scheduled

\* callLater() keeps one call of update(), however often it is asked, and drops one
\* that a thread without an event loop, or with a full queue, refuses.
RequestUpdate ==
    /\ mPendingChanges' = TRUE
    /\ IF mPendingChanges \/ posted
       THEN UNCHANGED <<posted, refused>>
       ELSE posted' \in BOOLEAN /\ refused' = ~posted'

Put(k, v) ==
    /\ mRemovedKeys' = mRemovedKeys \ {k}
    /\ mAddedKeys' = (k :> [value |-> v, position |-> mNextPosition]) @@ mAddedKeys
    /\ mNextPosition' = mNextPosition + 1

PutNothing == UNCHANGED <<mRemovedKeys, mAddedKeys, mNextPosition, scheduled>>

\* A value under the prefix; an empty key is refused.
SetUnder(prefix, key, v) ==
    /\ \/ NormalizedKey(key) = <<>> /\ PutNothing
       \/ NormalizedKey(key) # <<>> /\ Put(prefix \o NormalizedKey(key), v) /\ RequestUpdate
    /\ UNCHANGED mOriginalKeys

\* A key and every key below it, or all of them.
Drop(key) ==
    LET gone(k) == key = <<>> \/ k = key \/ IsPrefix(key \o <<Slash>>, k) IN
    /\ mAddedKeys' = [k \in {j \in DOMAIN mAddedKeys : ~gone(j)} |-> mAddedKeys[k]]
    /\ mRemovedKeys' = {k \in DOMAIN mOriginalKeys : gone(k)}
                       \cup IF key = <<>> THEN {} ELSE mRemovedKeys
    /\ UNCHANGED <<mOriginalKeys, mNextPosition>>

SetValue(key, v) ==
    /\ Call
    /\ SetUnder(mGroupPrefix, key, v)
    /\ UNCHANGED <<disk, groups, results>>

\* Without a key, the group that is open; at the top, everything.
GroupName == IF mGroupPrefix = <<>> THEN <<>> ELSE Front(mGroupPrefix)
RemoveKey(key) ==
    /\ Call
    /\ Drop(IF NormalizedKey(key) = <<>> THEN GroupName ELSE mGroupPrefix \o NormalizedKey(key))
    /\ RequestUpdate
    /\ UNCHANGED <<disk, groups, results>>

Clear ==
    /\ Call
    /\ Drop(<<>>)
    /\ RequestUpdate
    /\ UNCHANGED <<disk, groups, results>>

PrefixWith(group) ==
    IF group.name = <<>> THEN mGroupPrefix ELSE mGroupPrefix \o group.name \o <<Slash>>

BeginGroupOrArray(group) ==
    /\ mGroupStack' = Append(mGroupStack, group)
    /\ mGroupPrefix' = PrefixWith(group)

BeginGroup(name) ==
    /\ Call
    /\ BeginGroupOrArray(Group(NormalizedKey(name)))
    /\ UNCHANGED <<disk, store, scheduled, results>>

BeginReadArray(name) ==
    /\ Call
    /\ BeginGroupOrArray([Group(NormalizedKey(name)) EXCEPT !.number = 0])
    /\ UNCHANGED <<disk, store, scheduled, results>>

SizeKey == <<Word(9)>>

\* With a size, which is written, or without, when it is counted.
BeginWriteArray(name, size) ==
    LET group == [Group(NormalizedKey(name)) EXCEPT !.number = 0, !.max = IF size < 0 THEN 0 ELSE -1] IN
    /\ Call
    /\ BeginGroupOrArray(group)
    /\ \/ size < 0 /\ Drop(PrefixWith(group) \o SizeKey) /\ RequestUpdate
       \/ size >= 0 /\ SetUnder(PrefixWith(group), SizeKey, IntValue(size))
    /\ UNCHANGED <<disk, results>>

\* The prefix before the last group; the length is what its name has now.
Popped ==
    LET length == Len(GroupText(Last(mGroupStack))) IN
    IF length > 0 THEN SubSeq(mGroupPrefix, 1, Len(mGroupPrefix) - length - 1) ELSE mGroupPrefix

\* Popped() that forgets the number of an array's element.
PoppedName ==
    LET length == Len(Last(mGroupStack).name) IN
    IF length > 0 THEN SubSeq(mGroupPrefix, 1, Len(mGroupPrefix) - length - 1) ELSE mGroupPrefix

\* End() with the prefix one name shorter, whatever is on the stack.
EndByName ==
    /\ mGroupStack # <<>>
    /\ mGroupStack' = Front(mGroupStack)
    /\ mGroupPrefix' = PoppedName

End ==
    /\ mGroupStack # <<>>
    /\ mGroupStack' = Front(mGroupStack)
    /\ mGroupPrefix' = Popped

EndGroup ==
    /\ Call
    /\ End
    /\ UNCHANGED <<disk, store, scheduled, results>>

\* Of an array that was counted, the size.
EndArray ==
    LET group == Last(mGroupStack) IN
    /\ Call
    /\ End
    /\ IF group.max # -1
       THEN SetUnder(mGroupPrefix', group.name \o <<Slash>> \o SizeKey, IntValue(group.max))
       ELSE UNCHANGED <<store, scheduled>>
    /\ UNCHANGED <<disk, results>>

\* Replaces the number at the end of the prefix.
SetArrayIndex(index) ==
    LET top == Last(mGroupStack)
        number == Max({index, 0}) + 1
        group == [top EXCEPT !.number = number,
                             !.max = IF @ # -1 /\ number > @ THEN number ELSE @]
    IN  /\ Call
        /\ mGroupStack # <<>> /\ IsArray(top)
        /\ mGroupStack' = Append(Front(mGroupStack), group)
        /\ mGroupPrefix' = SubSeq(mGroupPrefix, 1, Len(mGroupPrefix) - Len(GroupText(top)) - 1)
                           \o GroupText(group) \o <<Slash>>
        /\ UNCHANGED <<disk, store, scheduled, results>>

Sync ==
    /\ Call
    /\ SyncNow
    /\ UNCHANGED <<groups, posted, lost>>

-----------------------------------------------------------------------------
(* The event loop, the object's life, and the person with an editor. *)

\* update(), from the event loop of the object's thread.
Update ==
    /\ open
    /\ posted
    /\ posted' = FALSE
    /\ SyncNow
    /\ UNCHANGED <<about, groups, lost, open, bounds>>

\* What sync() would do to the store is of no use any more, only the file is.
Destroy ==
    /\ open
    /\ \/ /\ mPendingChanges /\ Unsaved
          /\ \/ failed' = FALSE /\ edited' = FALSE /\ \E known \in {Known} : file' = Write(Merged(known.keys))
             \/ failed' = TRUE /\ UNCHANGED disk
          /\ UNCHANGED lost
       \/ /\ ~(mPendingChanges /\ Unsaved)
          /\ lost' = (lost \/ Unsaved)
          /\ UNCHANGED <<disk, failed>>
    /\ open' = FALSE
    /\ mOriginalKeys' = NoKeys /\ mAddedKeys' = NoKeys /\ mRemovedKeys' = {} /\ mNextPosition' = FirstNew
    /\ mGroupStack' = <<>> /\ mGroupPrefix' = <<>>
    /\ mPendingChanges' = FALSE /\ posted' = FALSE /\ refused' = FALSE
    /\ UNCHANGED <<about, mStatus, bounds>>

\* openFile(), with its sync().
Open ==
    /\ ~open
    /\ objects < MaxObjects
    /\ objects' = objects + 1
    /\ open' = TRUE
    /\ \E r \in {Read(file)} :
          /\ mOriginalKeys' = r.keys
          /\ mStatus' = FormatOf(r)
    /\ edited' = FALSE
    /\ failed' = FALSE
    /\ UNCHANGED <<about, file, mAddedKeys, mRemovedKeys, mNextPosition, groups, scheduled,
                   lost, calls, edits>>

Edit(text) ==
    /\ edits < MaxEdits
    /\ text # file
    /\ edits' = edits + 1
    /\ file' = text
    /\ edited' = open
    /\ UNCHANGED <<about, store, groups, scheduled, results, open, calls, objects>>

-----------------------------------------------------------------------------
Init ==
    /\ about \in About
    /\ file \in Input.files
    /\ edited = FALSE
    /\ \E r \in {Read(file)} :
          /\ mOriginalKeys = r.keys
          /\ mStatus = FormatOf(r)
    /\ mAddedKeys = NoKeys /\ mRemovedKeys = {} /\ mNextPosition = FirstNew
    /\ mGroupStack = <<>> /\ mGroupPrefix = <<>>
    /\ mPendingChanges = FALSE /\ posted = FALSE /\ refused = FALSE
    /\ open = TRUE
    /\ failed = FALSE /\ lost = FALSE
    /\ calls = 0 /\ objects = 1 /\ edits = 0

Sets == {<<k, v>> : k \in Input.keys, v \in Input.values} \cup IF calls = 0 THEN Input.first ELSE {}

Asked ==
    \/ \E pair \in Sets : SetValue(pair[1], pair[2])
    \/ \E k \in Input.keys : RemoveKey(k)
    \/ Clear
    \/ Sync
Grouped ==
    \/ \E n \in Input.names :
          \/ BeginGroup(n)
          \/ NormalizedKey(n) # <<>> /\ BeginReadArray(n)
          \/ NormalizedKey(n) # <<>> /\ \E size \in Input.sizes : BeginWriteArray(n, size)
    \/ EndGroup
    \/ EndArray
    \/ \E i \in Input.indices : SetArrayIndex(i)

Next ==
    \/ Asked
    \/ Grouped
    \/ Update
    \/ Destroy
    \/ Open
    \/ \E t \in Input.edits : Edit(t)

Spec == Init /\ [][Next]_vars

-----------------------------------------------------------------------------
(* Correctness. *)

Texts == Seq(Nat)
Entries(keys) == \A k \in DOMAIN keys : k \in Texts /\ keys[k].position \in Nat

TypeOK ==
    /\ about \in About
    /\ file \in Texts
    /\ Entries(mOriginalKeys) /\ Entries(mAddedKeys)
    /\ mRemovedKeys \cap DOMAIN mAddedKeys = {}
    /\ mNextPosition \in Nat
    /\ mStatus \in {"NoError", "AccessError", "FormatError"}
    /\ {edited, mPendingChanges, posted, refused, open, failed, lost} \subseteq BOOLEAN

\* However groups and arrays are begun, numbered and ended, also an array by
\* endGroup() or a group by endArray(): the prefix is the names on the stack
\* (mGroupPrefix is shortened and rewritten by lengths, never rebuilt).
PrefixFollowsTheStack ==
    /\ TypeOK
    /\ mGroupPrefix = FlattenSeq([i \in DOMAIN mGroupStack |->
          LET text == GroupText(mGroupStack[i]) IN
          IF text = <<>> THEN <<>> ELSE Append(text, Slash)])

\* A text read for a value converts back to it, in the type it was set as
\* (class comment of SettingsValue).
ReadsAs(w, v) ==
    CASE v.type = "Bool"       -> ToBool(w) = ToBool(v)
      [] v.type = "Int"        -> ToLong(w) = ToLong(v) /\ ToInt(w) = ToInt(v)
      [] v.type = "Double"     -> ToDouble(w) = ToDouble(v)
      [] v.type = "String"     -> w.type = "String" /\ w.text = v.text
      [] v.type = "StringList" -> ToStringList(w) = v.list
      [] OTHER                 -> w = v

SameOrder(keys, others) ==
    /\ OrderedSections(keys) = OrderedSections(others)
    /\ \A name \in ToSet(OrderedSections(keys)) : OrderedKeys(keys, name) = OrderedKeys(others, name)

\* What is in the file is what the store thinks it wrote or read there: the
\* same keys, in the same order, with values that read alike, whatever they
\* have in them (SettingsIniCodecTest.EveryValueRoundTripsThroughAFile).
FileTellsTheStore ==
    open /\ ~edited =>
        \E r \in {Read(file).keys} :
            /\ DOMAIN r = DOMAIN mOriginalKeys
            /\ \A k \in DOMAIN r : ReadsAs(r[k].value, mOriginalKeys[k].value)
            /\ SameOrder(r, mOriginalKeys)

\* A change is written by an update() that is on its way, unless the last
\* write failed (class comment of Settings, "When the file is written") or the
\* loop refused the call; then sync() and the destructor still know of it
\* (comment of Settings::requestUpdate()).
UnsavedIsScheduled ==
    open => /\ Unsaved => mPendingChanges \/ failed
            /\ mPendingChanges => posted \/ refused

\* What allKeys(), childKeys() and childGroups() list is what value() finds.
ListedIsFound ==
    \A k \in AllKeys :
        Lookup(k) /\ (k \in ChildKeys \/ SectionOf(k) \in ChildGroups)

\* Keys are what the program and the file make of names: relative to the groups and arrays
\* begun, and listed as they are looked up.
NamesAreRight == PrefixFollowsTheStack /\ ListedIsFound

\* A write changes the keys that were set or removed, and no others: what a
\* person has in the file meanwhile keeps its value and its place, and new
\* keys come last in their section (comment of SettingsIniCodec::write).
Rewritten(old, new) ==
    LET kept == DOMAIN old \ (mRemovedKeys \cup DOMAIN mAddedKeys)
        stays(k) == k \in DOMAIN old \ mRemovedKeys
        before(keys, j, k) == keys[j].position < keys[k].position
    IN  /\ \A k \in kept : k \in DOMAIN new /\ new[k].value = old[k].value
        /\ DOMAIN new = kept \cup DOMAIN mAddedKeys
        /\ \A j, k \in DOMAIN new :
              stays(j) /\ SectionName(j) = SectionName(k) =>
                  before(new, j, k) = (~stays(k) \/ before(old, j, k))
WritesKeepTheRest ==
    [][Unsaved /\ file' # file /\ edits' = edits =>
          \E old \in {Read(file)}, new \in {Read(file')} : Rewritten(old.keys, new.keys)]_vars

\* "Writes any change that is not yet written, and destroys the object"
\* (comment of Settings::~Settings).
DestructorWrites == ~lost
=============================================================================
