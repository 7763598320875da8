----------------------------- MODULE MailStore -----------------------------
(***************************************************************************)
(* The store of captured mail (orcker-mail/src/io/store.rs): an index in   *)
(* memory and on disk, and one file per message.  One mutex serialises the *)
(* operations, so at most one is under way; each of its file operations is *)
(* an await at which it may fail or the process may die.                   *)
(*                                                                         *)
(* A message stands for its content and for the summary shown of it.       *)
(***************************************************************************)
EXTENDS Naturals, Sequences, FiniteSets, FiniteSetsExt, SequencesExt

CONSTANTS
    Cap,            \* retention cap
    MaxMails        \* bound: messages sent, in all

VARIABLES
    entries,    \* Inner.entries, oldest first: [id, msg, read]
    next_id,    \* Inner.next_id
    index,      \* the entries of index.json
    eml,        \* the message files: a function from ids to content
    op,         \* the operation under way: what it still has to do
    sent,       \* messages sent so far; message n is the n-th
    acked,      \* history: acknowledged messages that must still be there
    idOf        \* history: the id of each acknowledged message

vars == <<entries, next_id, index, eml, op, sent, acked, idOf>>

Nothing == [i \in {} |-> 0]
Truncated == 0

\* step: "open" (the daemon is down), "idle", "eml" or "remove";
\* msg is the message being captured or 0; files are the ids to unlink.
Op(step, id, msg, files) == [step |-> step, id |-> id, msg |-> msg, files |-> files]
Down == Op("open", 0, 0, <<>>)
Idle == Op("idle", 0, 0, <<>>)

Ids(s) == [i \in DOMAIN s |-> s[i].id]
Without(f, id) == [i \in DOMAIN f \ {id} |-> f[i]]
With(f, id, c) == [i \in DOMAIN f \cup {id} |-> IF i = id THEN c ELSE f[i]]
Messaged(s) == {s[i].msg : i \in DOMAIN s}

Init ==
    /\ entries = <<>> /\ next_id = 0 /\ index = <<>> /\ eml = Nothing /\ op = Down
    /\ sent = 0 /\ acked = {} /\ idOf = Nothing

\* Mutant of the seed of the id counter: only the files are looked at.
Seeds_files(listed, files) == DOMAIN files
Seeds(listed, files) == Range(Ids(listed)) \cup DOMAIN files

\* Store::open after a start of the daemon.
open ==
    /\ op.step = "open"
    /\ entries' = index
    /\ next_id' = IF Seeds(index, eml) = {} THEN 0 ELSE Max(Seeds(index, eml)) + 1
    /\ op' = Idle
    /\ UNCHANGED <<index, eml, sent, acked, idOf>>

\* Store::append takes the lock and an id.
append ==
    /\ op.step = "idle" /\ sent < MaxMails
    /\ sent' = sent + 1
    /\ next_id' = next_id + 1
    /\ op' = Op("eml", next_id, sent + 1, <<>>)
    /\ UNCHANGED <<entries, index, eml, acked, idOf>>

evict_count(len) == IF len > Cap THEN len - Cap ELSE 0

Evict(listed, n) ==
    /\ entries' = SubSeq(listed, n + 1, Len(listed))
    /\ op' = [op EXCEPT !.step = "remove", !.files = SubSeq(Ids(listed), 1, n)]

\* Acknowledged messages that Cap later ones outlive.
Outlived(listed) ==
    {listed[i].msg : i \in {j \in DOMAIN listed : Len(listed) - j >= Cap}}

\* The file is written, the entry pushed, the oldest entries drained.
WriteEml ==
    /\ op.step = "eml"
    /\ eml' = With(eml, op.id, op.msg)
    /\ LET listed == Append(entries, [id |-> op.id, msg |-> op.msg, read |-> FALSE])
       IN  Evict(listed, evict_count(Len(listed))) /\ acked' = acked \ Outlived(listed)
    /\ UNCHANGED <<next_id, index, sent, idOf>>

\* The write fails, with part of the file on disk or none.
WriteEmlFails ==
    /\ op.step = "eml"
    /\ eml' \in {eml, With(eml, op.id, Truncated)}
    /\ op' = Idle
    /\ UNCHANGED <<entries, next_id, index, sent, acked, idOf>>

\* Store::delete_many: the entries are gone at once, their files one by one.
\* Store::clear deletes them all.
delete_many(ids) ==
    /\ op.step = "idle"
    /\ entries' = SelectSeq(entries, LAMBDA e : e.id \notin ids)
    /\ op' = Op("remove", 0, 0, SelectSeq(Ids(entries), LAMBDA i : i \in ids))
    /\ acked' = acked \ Messaged(SelectSeq(entries, LAMBDA e : e.id \in ids))
    /\ UNCHANGED <<next_id, index, eml, sent, idOf>>
clear == delete_many(Range(Ids(entries)))

\* An error of remove_file is ignored.
RemoveFile ==
    /\ op.step = "remove" /\ op.files # <<>>
    /\ eml' \in {eml, Without(eml, Head(op.files))}
    /\ op' = [op EXCEPT !.files = Tail(@)]
    /\ UNCHANGED <<entries, next_id, index, sent, acked, idOf>>

\* Store::mark_read: nothing is written when nothing changes.
mark_read(ids) ==
    /\ op.step = "idle"
    /\ \E i \in DOMAIN entries : ~entries[i].read /\ entries[i].id \in ids
    /\ entries' = [i \in DOMAIN entries |->
                     [entries[i] EXCEPT !.read = @ \/ entries[i].id \in ids]]
    /\ op' = Op("remove", 0, 0, <<>>)
    /\ UNCHANGED <<next_id, index, eml, sent, acked, idOf>>

\* Store::write_index: a temporary file is renamed over the index. The sender
\* of a captured message is answered 250 after it, 451 if it fails.
write_index ==
    /\ op.step = "remove" /\ op.files = <<>>
    /\ index' = entries
    /\ \/ op.msg = 0 /\ UNCHANGED <<acked, idOf>>
       \/ op.msg # 0 /\ acked' = acked \cup {op.msg} /\ idOf' = With(idOf, op.msg, op.id)
    /\ op' = Idle
    /\ UNCHANGED <<entries, next_id, eml, sent>>
WriteIndexFails ==
    /\ op.step = "remove" /\ op.files = <<>>
    /\ op' = Idle
    /\ UNCHANGED <<entries, next_id, index, eml, sent, acked, idOf>>

\* The process dies, possibly in the middle of writing a message file.
Crash ==
    /\ op.step # "open"
    /\ eml' \in {eml} \cup (IF op.step = "eml" THEN {With(eml, op.id, Truncated)} ELSE {})
    /\ op' = Down
    /\ entries' = <<>>
    /\ UNCHANGED <<next_id, index, sent, acked, idOf>>

Next ==
    \/ open \/ append \/ WriteEml \/ WriteEmlFails \/ RemoveFile
    \/ write_index \/ WriteIndexFails \/ clear \/ Crash
    \/ \E id \in Range(Ids(entries)) : delete_many({id}) \/ mark_read({id})

Spec == Init /\ [][Next]_vars
-----------------------------------------------------------------------------
\* A message that was answered 250 is in the index on disk with its own file,
\* through crashes and failed writes, until it is deleted or Cap later
\* messages were listed (store.rs, append; server.rs, "250 OK: queued").
AckedKept ==
    \A m \in acked : \E i \in DOMAIN index :
        index[i].msg = m /\ index[i].id \in DOMAIN eml /\ eml[index[i].id] = m

\* Opening a listed message never shows another message's content, even when
\* the index outlived the file it lists (store.rs, get).
ListedIsOwn ==
    \A s \in {entries, index} : \A i \in DOMAIN s :
        s[i].id \in DOMAIN eml => eml[s[i].id] = s[i].msg

\* No message file is written over, listed or not (store.rs: "a previously
\* written `.eml` can never have its id reused after a restart").
EmlKept == \A id \in DOMAIN eml : id \in DOMAIN eml' => eml'[id] = eml[id]

\* Two acknowledged messages never get one id, restarts included (store.rs on
\* next_id: "Monotonic; never reused, even across `clear`").
IdsNeverReused == \A m, n \in DOMAIN idOf : idOf[m] = idOf[n] => m = n
=============================================================================
