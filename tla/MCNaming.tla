------------------------------ MODULE MCNaming ------------------------------
(***************************************************************************)
(* One process number, a container that is known by its own identifier and *)
(* whose root shows in /proc, and one that is known by its sandbox.        *)
(***************************************************************************)
EXTENDS Naming

CONSTANTS process, host, web, db, webId, dbId, podId, webName, dbName

MCCgroupOf ==
  [c \in {web, db} |-> IF c = web THEN [by |-> "containers", id |-> webId]
                      ELSE [by |-> "sandboxes", id |-> podId]]

MCRootOf == [home \in {host, web, db} |-> IF home = web THEN <<"web">> ELSE <<>>]

MCDirs == {<<>>, <<"d">>}
MCFiles == {<<"f">>, <<"x">>, <<"d", "f">>}

FromCwd(name) == [name |-> name, dirfd |-> AtFdCwd, readable |-> TRUE]

MCOpens ==
  {FromCwd(name) : name \in {<<"", "d", "f">>, <<"", "x">>, <<"f">>, <<"..", "d", ".", "f">>}}
  \cup {[name |-> <<"f">>, dirfd |-> 0, readable |-> TRUE],
        [name |-> <<"f">>, dirfd |-> AtFdCwd, readable |-> FALSE],
        FromCwd(<<"d">>), FromCwd(<<".", "d", "..", ".", "f">>)}

\* Processes that come and go, and processes that look for files.
MCPrograms ==
  {[homes |-> {host, web, db}, opens |-> {FromCwd(<<"", "f">>)}, dirs |-> {}, pseudo |-> {},
    calls |-> 5, disturbances |-> 1],
   [homes |-> {web}, opens |-> MCOpens, dirs |-> MCDirs, pseudo |-> {<<"pipe:">>, <<"memfd:">>, <<"net:">>},
    calls |-> 4, disturbances |-> 0]}

MCExcludePrefixes == {<<"x">>}

MCTrueAnswer ==
  [crictl |-> <<[id |-> webId, name |-> webName, sandbox |-> webId],
                [id |-> dbId, name |-> dbName, sandbox |-> podId]>>,
   docker |-> <<>>]

MCAnswers == {MCTrueAnswer, [crictl |-> <<>>, docker |-> <<>>]}
=============================================================================
