---------------------------- MODULE MCCollector ----------------------------
(* Small instances of Collector: an incremental file alone, or before a    *)
(* FullReparse file.                                                        *)
EXTENDS Collector

CONSTANTS claude, codex

OneIncremental == <<claude>>
Both == <<claude, codex>>

World(faults, notBefore) == [faults |-> faults, notBefore |-> notBefore]

\* Everything that can go wrong with growing files; rewritten files under a
\* failing sink; a failing sink alone, with and without a window.
AllWorlds ==
    {World({"crash", "save", "sink", "open", "corrupt", "rescan"}, 0),
     World({"truncate", "sink"}, 0),
     World({"sink"}, 0), World({"sink"}, 2)}

CrashWorld == {World({"crash"}, 0)}
TruncateWorld == {World({"truncate"}, 0)}
============================================================================
