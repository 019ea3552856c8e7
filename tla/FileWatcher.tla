----------------------------- MODULE FileWatcher ------------------------------
(* FileWatcher (file_watcher/file_watcher.cpp) and one file: clients register *)
(* and unregister listeners, the file is written, deleted and made again, and *)
(* the watcher thread takes the events inotify queued for it one by one.      *)
(* inotify and the file system are external.                                  *)
EXTENDS Integers, Sequences, FiniteSets

CONSTANTS Listeners,
          MaxContents,     \* bound: contents the file gets, one after the other
          MaxWds           \* bound: watches made

VARIABLES disk,            \* the contents of the file, 0 when it is not there
          written,         \* the contents given to it so far
          watch, wds,      \* inotify: the watch on the file or 0, watches made
          queue,           \* inotify: events not read yet
          m_files,         \* the entry of the file, NoFile when there is none
          cop,             \* listener -> register_listener under way for it
          ev,              \* on_modified_event under way
          known,            \* listener -> the contents it knows of
          stopping         \* "no", "asked" (stop() has written to the pipe), "ended"

fwVars == <<disk, written, watch, wds, queue, m_files, cop, ev, known, stopping>>

NoFile == [wd |-> 0, contents |-> 0, handlers |-> {}, gap |-> FALSE]
NoRegister == [pc |-> "idle", contents |-> 0, wd |-> 0, gap |-> FALSE]
NoEvent == [pc |-> "poll", wd |-> 0, info |-> NoFile, late |-> {}, seen |-> 0]

\* An event is queued while the file is watched; equal neighbours are merged.
FileQueued(kind) ==
  LET e == [wd |-> watch, kind |-> kind]
  IN IF watch = 0 \/ (queue # <<>> /\ queue[Len(queue)] = e) THEN queue ELSE Append(queue, e)

WriteFile ==
  /\ written < MaxContents
  /\ written' = written + 1
  /\ disk' = written'
  /\ queue' = FileQueued("close_write")
  /\ cop' = [l \in Listeners |-> [cop[l] EXCEPT !.gap = @ \/ cop[l].pc # "idle"]]
  /\ UNCHANGED <<watch, wds, m_files, ev, known, stopping>>

DeleteFile ==
  /\ disk # 0
  /\ disk' = 0
  /\ queue' = FileQueued("delete_self")
  /\ watch' = 0
  /\ UNCHANGED <<written, wds, m_files, cop, ev, known, stopping>>

------------------------------------------------------------------------------
\* A file that is there passes; larger ones than a GiB are left out.
check_file_size == disk # 0

\* The entry of a watch; an info that is not found stays as it was built.
get_fileinfo(wd) == IF m_files.wd = wd THEN m_files ELSE NoFile

Late(l) == [ev EXCEPT !.late = IF ev.pc = "poll" THEN @ \ {l} ELSE @ \cup {l}]

\* register_listener: check_file_size, and the handler joins the entry if there
\* is one; otherwise the contents are read, outside of the lock.
RegisterJoin(l) ==
  /\ cop[l].pc = "idle" /\ l \notin m_files.handlers /\ check_file_size /\ m_files.wd # 0
  /\ m_files' = [m_files EXCEPT !.handlers = @ \cup {l}]
  /\ known' = [known EXCEPT ![l] = disk]
  /\ ev' = Late(l)
  /\ UNCHANGED <<disk, written, watch, wds, queue, cop, stopping>>

RegisterRead(l) ==
  /\ cop[l].pc = "idle" /\ l \notin m_files.handlers /\ check_file_size /\ m_files.wd = 0
  /\ cop' = [cop EXCEPT ![l] = [NoRegister EXCEPT !.pc = "watch", !.contents = disk]]
  /\ known' = [known EXCEPT ![l] = disk]
  /\ ev' = Late(l)
  /\ UNCHANGED <<disk, written, watch, wds, queue, m_files, stopping>>

\* inotify_add_watch: the watch there is, or a new one; -1 without the file or
\* when run() has closed the descriptor.
RegisterWatch(l) ==
  /\ cop[l].pc = "watch"
  /\ IF disk = 0 \/ stopping = "ended"
     THEN cop' = [cop EXCEPT ![l] = NoRegister] /\ UNCHANGED <<watch, wds>>
     ELSE /\ wds < MaxWds
          /\ wds' = IF watch = 0 THEN wds + 1 ELSE wds
          /\ watch' = IF watch = 0 THEN wds' ELSE watch
          /\ cop' = [cop EXCEPT ![l].pc = "insert", ![l].wd = watch']
  /\ UNCHANGED <<disk, written, queue, m_files, ev, known, stopping>>

\* emplace leaves an entry alone that another client has made meanwhile.
RegisterInsert(l) ==
  /\ cop[l].pc = "insert"
  /\ m_files' = IF m_files.wd # 0 THEN m_files
                ELSE [wd |-> cop[l].wd, contents |-> cop[l].contents, handlers |-> {l},
                      gap |-> cop[l].gap]
  /\ cop' = [cop EXCEPT ![l] = NoRegister]
  /\ UNCHANGED <<disk, written, watch, wds, queue, ev, known, stopping>>

\* unregister_listener erases the handler from a copy of the entry, and the
\* entry with its watch when that leaves the copy without handlers.
UnregisterListener(l) ==
  /\ cop[l].pc = "idle" /\ m_files.wd # 0
  /\ m_files.handlers \ {l} = {}
  /\ watch' = IF watch = m_files.wd THEN 0 ELSE watch
  /\ m_files' = NoFile
  /\ UNCHANGED <<disk, written, wds, queue, cop, ev, known, stopping>>

------------------------------------------------------------------------------
Polling == [NoEvent EXCEPT !.late = ev.late]

\* handle_events takes an event (of those it has read, also after stop); the
\* handler copies the entry of its watch.
TakeEvent ==
  /\ ev.pc = "poll" /\ stopping # "ended" /\ queue # <<>>
  /\ LET e == Head(queue)
     IN ev' = [ev EXCEPT !.pc = e.kind, !.wd = e.wd, !.info = get_fileinfo(e.wd)]
  /\ queue' = Tail(queue)
  /\ UNCHANGED <<disk, written, watch, wds, m_files, cop, known, stopping>>

\* IN_DELETE_SELF: the entry of the path goes, with its watch; an info that was
\* not filled has an empty path and any number for a watch.
OnDeleted ==
  /\ ev.pc = "delete_self"
  /\ IF ev.info.wd # 0
     THEN m_files' = NoFile /\ watch' = IF watch = ev.info.wd THEN 0 ELSE watch
     ELSE watch' \in {watch, 0} /\ UNCHANGED m_files
  /\ known' = [l \in Listeners |-> IF l \in ev.info.handlers THEN 0 ELSE known[l]]
  /\ ev' = Polling
  /\ UNCHANGED <<disk, written, wds, queue, cop, stopping>>

\* IN_CLOSE_WRITE: check_file_size, then the contents are read.
ReadContents ==
  /\ ev.pc = "close_write"
  /\ ev' = IF ev.info.wd = 0 \/ ~check_file_size \/ disk = ev.info.contents THEN Polling
           ELSE [ev EXCEPT !.pc = "notify", !.seen = disk]
  /\ UNCHANGED <<disk, written, watch, wds, queue, m_files, cop, known, stopping>>

\* The handlers of the copy are called.
Notify ==
  /\ ev.pc = "notify"
  /\ known' = [l \in Listeners |-> IF l \in ev.info.handlers THEN ev.seen ELSE known[l]]
  /\ ev' = [ev EXCEPT !.pc = "record"]
  /\ UNCHANGED <<disk, written, watch, wds, queue, m_files, cop, stopping>>

\* Slip: the contents are read again to be recorded.
RecordReread ==
  /\ ev.pc = "record"
  /\ m_files' = IF m_files.wd = ev.wd
                THEN [m_files EXCEPT !.contents = disk, !.gap = FALSE] ELSE m_files
  /\ ev' = Polling
  /\ UNCHANGED <<disk, written, watch, wds, queue, cop, known, stopping>>

\* Slip: nothing is recorded.
RecordNothing ==
  /\ ev.pc = "record"
  /\ ev' = Polling
  /\ UNCHANGED <<disk, written, watch, wds, queue, m_files, cop, known, stopping>>

\* set_fileinfo_content.
Record ==
  /\ ev.pc = "record"
  /\ m_files' = IF m_files.wd = ev.wd
                THEN [m_files EXCEPT !.contents = ev.seen, !.gap = FALSE] ELSE m_files
  /\ ev' = Polling
  /\ UNCHANGED <<disk, written, watch, wds, queue, cop, known, stopping>>

\* stop
StopWatcher ==
  /\ stopping = "no"
  /\ stopping' = "asked"
  /\ UNCHANGED <<disk, written, watch, wds, queue, m_files, cop, ev, known>>

\* run sees the pipe's event between two batches and closes the descriptors:
\* inotify forgets its watches and events.
WatcherEnds ==
  /\ stopping = "asked" /\ ev.pc = "poll"
  /\ stopping' = "ended" /\ watch' = 0 /\ queue' = <<>>
  /\ UNCHANGED <<disk, written, wds, m_files, cop, ev, known>>

FileInit ==
  /\ disk = 1 /\ written = 1 /\ watch = 0 /\ wds = 0 /\ queue = <<>> /\ m_files = NoFile
  /\ cop = [l \in Listeners |-> NoRegister] /\ ev = NoEvent
  /\ known = [l \in Listeners |-> 0] /\ stopping = "no"

FileNext ==
  \/ WriteFile \/ DeleteFile \/ StopWatcher \/ WatcherEnds
  \/ TakeEvent \/ OnDeleted \/ ReadContents \/ Notify \/ Record
  \/ \E l \in Listeners : \/ RegisterJoin(l) \/ RegisterRead(l) \/ RegisterWatch(l)
                          \/ RegisterInsert(l) \/ UnregisterListener(l)

FileSpec == FileInit /\ [][FileNext]_fwVars

------------------------------------------------------------------------------
\* No event is left and none is being handled.
CaughtUp == queue = <<>> /\ ev.pc = "poll"

\* Whatever the order of writes, events and registrations, once the events are
\* through the watcher has recorded the contents the file has, unless it was
\* written between the read and the insert of the registration.
ContentsFollow ==
  CaughtUp /\ m_files.wd # 0 /\ m_files.wd = watch /\ disk # 0 /\ ~m_files.gap
    => m_files.contents = disk

\* And every listener of the file has been called for them, but for one that
\* registered while an event was being handled.
ListenersTold ==
  CaughtUp /\ m_files.wd # 0 /\ m_files.wd = watch /\ disk # 0 /\ ~m_files.gap
    => \A l \in m_files.handlers \ ev.late : known[l] = disk

\* Once the events are through, the watcher and its listeners know the contents
\* the file has, whatever the order of writes, deletions and registrations.
FileFollowed == ContentsFollow /\ ListenersTold
===============================================================================
