----------------------------- MODULE MCInstagram -----------------------------
(***************************************************************************)
(* The Instagram side of the worker and of the web application: one run    *)
(* over its components, which share no rows that these instances reach.    *)
(* A behaviour is the behaviour of the component its scene names.          *)
(***************************************************************************)
EXTENDS InstagramSync, PostSnapshots, PostComments, InstagramConnection, MediaImport,
        ProviderAnswers, TLC

-----------------------------------------------------------------------------
(* The components side by side.                                            *)

CONSTANT Scenes   \* the components of the run

VARIABLE scene

componentVars == <<syncVars, observationVars, commentVars, connectionVars, importVars, heard>>

Init ==
  /\ scene \in Scenes
  /\ SyncInit /\ ObservationInit /\ CommentInit /\ ConnectionInit /\ ImportInit /\ AnswersInit
  /\ scene # "sync" => syncJob[<<"BOOTSTRAP", 0>>] = AbsentJob

Next ==
  /\ UNCHANGED scene
  /\ \/ /\ scene = "sync" /\ SyncNext
        /\ UNCHANGED <<observationVars, commentVars, connectionVars, importVars, heard>>
     \/ /\ scene = "snapshots" /\ ObservationNext
        /\ UNCHANGED <<syncVars, commentVars, connectionVars, importVars, heard>>
     \/ /\ scene = "comments" /\ CommentNext
        /\ UNCHANGED <<syncVars, observationVars, connectionVars, importVars, heard>>
     \/ /\ scene = "connection" /\ ConnectionNext
        /\ UNCHANGED <<syncVars, observationVars, commentVars, importVars, heard>>
     \/ /\ scene = "import" /\ ImportNext
        /\ UNCHANGED <<syncVars, observationVars, commentVars, connectionVars, heard>>
     \/ /\ scene = "provider" /\ AnswersNext
        /\ UNCHANGED <<syncVars, observationVars, commentVars, connectionVars, importVars>>

Spec == Init /\ [][Next]_<<scene, componentVars>>

-----------------------------------------------------------------------------
(* The instance.                                                           *)

MCKeySets == {{<<"BOOTSTRAP", 0>>}, {<<"MANUAL", 4>>}, {<<"SCHEDULED", 3>>, <<"SCHEDULED", 4>>}}

\* Reels, the medium of the third day without a usable timestamp.
MCItem(year) == [object |-> TRUE, serialisable |-> TRUE, bytes |-> 900, idValid |-> TRUE,
                 type |-> "VIDEO", product |-> "REELS", time |-> ParseTimestamp(year)]
MCMediaItems == [m \in 1..4 |-> MCItem(IF m = 3 THEN 1970 ELSE 2025)]
MCPostItem == MCItem(2025)

\* Inside day_3, after it and before the window of day_7, and inside that.
MCAges == <<259200, 400000, 604800>>
MCTime == <<0, 45, 46>>

\* The answers of the four groups: the first as drawn, of the second at most one
\* item, the last two refused alike.
MCInsightCalls ==
  LET item == [metric : {"views", "reach", "likes"}, value : {Null, -1, 0, 7}]
      refusals == [class : responseClasses, items : {<<>>}]
      short == [class : {"group"}, items : {<<>>} \cup {<<a>> : a \in item}] \cup refusals
      long == short \cup [class : {"group"}, items : {<<a, b>> : a, b \in item}]
  IN {<<first, second, rest, rest>> : first \in long, second \in short, rest \in refusals}

MCProbes ==
  [declared : {"video/mp4", "video/webm", "text/html"}, header : {Null},
   formats : {<<"mov", "mp4">>, <<"webm">>, <<"avi">>, <<"avi", "mp4">>},
   video : {"h264", "mpeg2"}, audio : {"aac", "pcm", Null}, seconds : {0, 30, 900},
   width : {90, 1080}, height : {1080, 9000}]
MCHeaders == [length : {16}, magic : {TRUE}, brand : {FALSE}]
             \cup [length : {6, 16}, magic : {FALSE}, brand : BOOLEAN]
MCReports == [json : BOOLEAN, video : BOOLEAN, codec : {Null, "h264"}, width : {1080}, height : {1080},
            formatDuration : {Null, 30}, streamDuration : {Null}]
MCProbeLimits == [video |-> {"h264"}, audio |-> {"aac"}, seconds |-> 1..300, smallest |-> 100,
                largest |-> 4000, bytes |-> 8]

\* A file that is stored and readable, and what may be wrong with it.
MCReadableFile ==
  [recorded |-> 6, present |-> TRUE, chunks |-> <<3, 3>>, checksum |-> TRUE,
   header |-> [length |-> 16, magic |-> FALSE, brand |-> TRUE], exit |-> "ok",
   report |-> [json |-> TRUE, video |-> TRUE, codec |-> "h264", width |-> 1080, height |-> 1080,
               formatDuration |-> 30, streamDuration |-> Null],
   evidence |-> CHOOSE e \in MCProbes :
     /\ e.declared = "video/mp4" /\ e.formats = <<"mov", "mp4">> /\ e.video = "h264"
     /\ e.audio = "aac" /\ e.seconds = 30 /\ e.width = 1080 /\ e.height = 1080]

MCJudgedFiles ==
  {[MCReadableFile EXCEPT !.header = h, !.evidence = e] : h \in MCHeaders, e \in MCProbes}
  \cup {[MCReadableFile EXCEPT !.recorded = r, !.present = p, !.chunks = c, !.checksum = k,
                             !.exit = x, !.report = report]
          : r \in {0, 6, 9}, p \in BOOLEAN, c \in {<<>>, <<3, 3>>, <<3, 3, 3>>}, k \in BOOLEAN,
            x \in {"ok", "missing", "killed", "overflow", "error"}, report \in MCReports}

\* A credential sealed for one account under one key, opened for another.
MCSeals == [sealedFor : {"a", "b"}, openedFor : {"a", "b"}, version : {0, 1, 2}, ring : {{}, {1}, {1, 2}},
          replaced : BOOLEAN, intact : BOOLEAN]

MCThreads ==
  LET Comment(o, b, t) == [object |-> o, serialisable |-> TRUE, bytes |-> b, idValid |-> TRUE,
                           time |-> ParseTimestamp(t)]
      comments == {Comment(o, b, t) : o \in BOOLEAN, b \in {10, 70000}, t \in {2024, 1970}}
  IN [top : comments, replies : {<<>>} \cup {<<a>> : a \in comments}
                                \cup {<<a, b>> : a, b \in comments}]

\* The slots of the worker are the same set for every queue.
MCSymmetry == Permutations(Slots) \cup Permutations(ProviderAccounts)
=============================================================================
