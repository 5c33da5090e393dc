-------------------------------- MODULE Plugins --------------------------------
(***************************************************************************)
(* PluginManager (plugins/manager.py), in one thread: the registry of      *)
(* plugins and a run of execute_plugins over those of one type.  The run   *)
(* iterates over the live list, and the code of a plugin may call the      *)
(* manager while it runs; its errors are caught.  Plugins of other types   *)
(* are in the registry too.                                                *)
(***************************************************************************)
EXTENDS Naturals, Sequences, FiniteSets, Functions

CONSTANTS Plugin, None,
          Type,    \* plugin_type of each plugin's metadata
          RunType  \* the type that is executed

VARIABLES
  enabled,   \* _plugins, _metadata: plugin -> BOOLEAN, or None: not registered
  byType,    \* _by_type
  order,     \* _execution_order
  run,       \* the run under way: [next, context], or None; context: the plugins that ran
  present,   \* history: plugins registered and enabled ever since the run began
  shrunk     \* history: an unregister during the run

vars == <<enabled, byType, order, run, present, shrunk>>

Registered == {p \in Plugin : enabled[p] # None}
Types      == Range(Type)

Init ==
  /\ enabled = [p \in Plugin |-> None]
  /\ byType = [t \in Types |-> <<>>] /\ order = <<>>
  /\ run = None /\ present = {} /\ shrunk = FALSE

\* A name is registered once; when initialize raises, nothing is.
Register(p) ==
  /\ p \notin Registered
  /\ enabled' = [enabled EXCEPT ![p] = TRUE]
  /\ byType' = [byType EXCEPT ![Type[p]] = Append(@, p)]
  /\ order' = Append(order, p)
  /\ UNCHANGED <<run, present, shrunk>>

\* list.remove
Without(s, p) ==
  LET i == CHOOSE j \in DOMAIN s : s[j] = p IN SubSeq(s, 1, i - 1) \o SubSeq(s, i + 1, Len(s))

\* cleanup may raise: the plugin is removed all the same.
Unregister_OrderLeft(p) ==
  /\ p \in Registered
  /\ enabled' = [enabled EXCEPT ![p] = None]
  /\ byType' = [byType EXCEPT ![Type[p]] = Without(@, p)]
  /\ present' = present \ {p} /\ shrunk' = (run # None)
  /\ UNCHANGED <<order, run>>
Unregister(p) ==
  /\ p \in Registered
  /\ enabled' = [enabled EXCEPT ![p] = None]
  /\ byType' = [byType EXCEPT ![Type[p]] = Without(@, p)]
  /\ order' = Without(order, p)
  /\ present' = present \ {p} /\ shrunk' = (run # None)
  /\ UNCHANGED run

Enable(p) ==
  /\ p \in Registered
  /\ enabled' = [enabled EXCEPT ![p] = TRUE]
  /\ UNCHANGED <<byType, order, run, present, shrunk>>

Disable(p) ==
  /\ p \in Registered
  /\ enabled' = [enabled EXCEPT ![p] = FALSE]
  /\ present' = present \ {p}
  /\ UNCHANGED <<byType, order, run, shrunk>>

\* execute_plugins begins.
Begin ==
  /\ run = None
  /\ run' = [next |-> 1, context |-> <<>>]
  /\ present' = {p \in Registered : Type[p] = RunType /\ enabled[p]}
  /\ shrunk' = FALSE
  /\ UNCHANGED <<enabled, byType, order>>

\* The next name: passed over if disabled, else its plugin runs, and an error leaves the
\* context to the next one.  The actions above are what it may do meanwhile.
ExecuteNext(p) ==
  /\ run # None /\ run.next <= Len(byType[RunType])
  /\ p = byType[RunType][run.next]
  /\ run' = [next |-> run.next + 1,
             context |-> IF enabled[p] THEN Append(run.context, p) ELSE run.context]
  /\ UNCHANGED <<enabled, byType, order, present, shrunk>>

End ==
  /\ run # None /\ run.next > Len(byType[RunType])
  /\ run' = None
  /\ UNCHANGED <<enabled, byType, order, present, shrunk>>

Next ==
  \/ Begin \/ End
  \/ \E p \in Plugin : Register(p) \/ Unregister(p) \/ Enable(p) \/ Disable(p) \/ ExecuteNext(p)

-----------------------------------------------------------------------------
\* list_plugins and get_stats
ListPlugins == {[name |-> p, type |-> Type[p], enabled |-> enabled[p]] : p \in Registered}
Counted(t)  == Len(byType[t])

\* The plugins of s come in the order of their registration, each once.
InOrder(s) ==
  \A i, j \in DOMAIN s : i < j => \E k, l \in DOMAIN order : k < l /\ order[k] = s[i] /\ order[l] = s[j]

\* The three structures of the registry agree, each in the order of registration, and a
\* run goes through every plugin that stays enabled, once and in that order: only an
\* unregister during the run may make it miss one or come to one again.
RegistryIsWhole ==
  /\ Range(order) = {x.name : x \in ListPlugins} /\ IsInjective(order)
  /\ \A t \in Types : /\ Range(byType[t]) = {x.name : x \in {y \in ListPlugins : y.type = t}} /\ InOrder(byType[t])
                      /\ Counted(t) = Cardinality({x \in ListPlugins : x.type = t})
  /\ run # None /\ ~shrunk =>
       /\ InOrder(run.context)
       /\ run.next > Len(byType[RunType]) => present \subseteq Range(run.context)
=============================================================================
