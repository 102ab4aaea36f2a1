----------------------------- MODULE ConfigFile -----------------------------
(***************************************************************************)
(* The configurations of the matters in memory (MatterConfig::json_config  *)
(* of every mode) and in the file ~/.matterialize/config.json: export_file *)
(* and import_file of MatterHandler, with save_configs, load_configs and   *)
(* dump_matters_config of MattersManager, against updates by other workers *)
(* and exits of the process at any point.  No lock protects a              *)
(* configuration that is read or written here; what an update does to the  *)
(* matters is MattersManager's.                                            *)
(***************************************************************************)
EXTENDS Naturals, FiniteSets

CONSTANTS
  Workers,       \* the threads of the server
  Modes,         \* MatterModes::modes
  Fields,        \* Fields[m]: the names in m's config_fields()
  Rank,          \* Rank[m]: the place of m in MatterModes::modes
  Values,        \* the strings a field is given
  LongValues,    \* those whose text is longer than the others'
  BadValues,     \* those the matter of the running mode may refuse
  DefaultValue,  \* dump_default_value() of every field
  Absent,        \* there is no file
  Empty,         \* the file was truncated
  Broken,        \* the file is not what json::parse accepts
  Nothing        \* nothing is known of the file

\* The places of json_config that hold a value.
Slots == UNION {{m} \X Fields[m] : m \in Modes}
Texts == [Slots -> Values]
SlotsOf(m) == {s \in Slots : s[1] = m}

ASSUME ConfigAssumption ==
  /\ Rank \in [Modes -> Nat]
  /\ \A m, n \in Modes : Rank[m] = Rank[n] => m = n
  /\ LongValues \subseteq Values /\ BadValues \subseteq Values
  /\ DefaultValue \in Values
  /\ {Absent, Empty, Broken} \cap Texts = {} /\ Absent # Empty /\ Absent # Broken /\ Empty # Broken

VARIABLES
  config,  \* config[s]: json_config[field]["value"] of the mode
  file,    \* what is at Config::default_matters_config_path()
  pc,      \* pc[w]: where worker w's handler is
  req,     \* req[w]: its locals
  seen,    \* history: seen[w][s], the values slot s was given by others since
           \* w's request began; for an export also the one it had then
  saved    \* history: seen[w] of the last export, if no other overlapped it

vars == <<config, file, pc, req, seen, saved>>
-----------------------------------------------------------------------------
Defaults == [s \in Slots |-> DefaultValue]
None == [s \in {} |-> DefaultValue]

(* The locals: the modes left to load, the values left to write, and the   *)
(* values copied by dump_matters_config or parsed by load_configs.         *)
NoRequest == [op |-> "none", modes |-> {}, writes |-> None, text |-> None]

Go(w, s) == pc' = [pc EXCEPT ![w] = s]
Answer(w) == Go(w, "idle") /\ req' = [req EXCEPT ![w] = NoRequest]
Exporting(w) == req[w].op = "export"

\* The length of a text, counted in long values.
Size(text) == Cardinality({s \in Slots : text[s] \in LongValues})

\* The constructor: every mode has its default configuration; no file is read.
Init ==
  /\ config = Defaults
  /\ file \in {Absent, Defaults}
  /\ pc = [w \in Workers |-> "idle"]
  /\ req = [w \in Workers |-> NoRequest]
  /\ seen = [w \in Workers |-> [s \in Slots |-> {}]]
  /\ saved = Nothing

Begin(w, s, r, values) ==
  /\ pc[w] = "idle"
  /\ Go(w, s)
  /\ req' = [req EXCEPT ![w] = r]
  /\ seen' = [seen EXCEPT ![w] = values]
  /\ UNCHANGED <<config, file, saved>>

\* POST /matter/config/update of some fields of a mode, which it has.
Update(w) ==
  \E m \in Modes : \E ss \in SUBSET SlotsOf(m) : \E u \in [ss -> Values] :
    Begin(w, "write", [NoRequest EXCEPT !.op = "update", !.writes = u],
          [s \in Slots |-> {}])

\* MatterConfig::update writes one field after the other.
WriteField(w) ==
  /\ pc[w] = "write"
  /\ \E s \in DOMAIN req[w].writes :
       LET v == req[w].writes[s] IN
       /\ config' = [config EXCEPT ![s] = v]
       /\ req' = [req EXCEPT ![w].writes = [r \in DOMAIN @ \ {s} |-> @[r]]]
       /\ seen' = [x \in Workers |->
                     IF x = w THEN seen[x] ELSE [seen[x] EXCEPT ![s] = @ \cup {v}]]
  /\ UNCHANGED <<file, pc, saved>>

(* The update ends; the matter may refuse a value that some field of the   *)
(* mode now has, and get_matter throw.                                     *)
EndUpdate(w) ==
  /\ pc[w] = "write" /\ DOMAIN req[w].writes = {}
  /\ \/ req[w].op = "update" /\ Answer(w)
     \/ req[w].op = "import" /\ Go(w, "next") /\ UNCHANGED req
     \/ /\ \E s \in Slots : config[s] \in BadValues
        /\ Answer(w)
  /\ UNCHANGED <<config, file, seen, saved>>
-----------------------------------------------------------------------------
\* POST /matters/config/export_file.
Export(w) ==
  Begin(w, "dump", [NoRequest EXCEPT !.op = "export"], [s \in Slots |-> {config[s]}])

\* Mutant of CopyField: the field's default is dumped.
CopyDefault(w) ==
  /\ pc[w] = "dump"
  /\ \E s \in Slots \ DOMAIN req[w].text :
       req' = [req EXCEPT ![w].text =
                 [r \in DOMAIN @ \cup {s} |-> IF r = s THEN DefaultValue ELSE @[r]]]
  /\ UNCHANGED <<config, file, pc, seen, saved>>

(* dump_matters_config copies the configuration of one mode after the      *)
(* other, ordered by the addresses of the modes, here in any order.        *)
CopyField(w) ==
  /\ pc[w] = "dump"
  /\ \E s \in Slots \ DOMAIN req[w].text :
       req' = [req EXCEPT ![w].text =
                 [r \in DOMAIN @ \cup {s} |-> IF r = s THEN config[s] ELSE @[r]]]
  /\ UNCHANGED <<config, file, pc, seen, saved>>

\* ofstream file{config_file} truncates the file, or makes it.
Open(w) ==
  /\ pc[w] = "dump" /\ DOMAIN req[w].text = Slots
  /\ file' = Empty
  /\ saved' = Nothing
  /\ Go(w, "close")
  /\ UNCHANGED <<config, req, seen>>

(* The text is short enough for the stream's buffer, which close() writes  *)
(* at the beginning of the file: if another export has written a longer    *)
(* text meanwhile, its end remains.                                        *)
Close(w) ==
  /\ pc[w] = "close"
  /\ file' = IF file \in Texts /\ Size(file) > Size(req[w].text) THEN Broken
             ELSE req[w].text
  /\ saved' = IF \E x \in Workers \ {w} : Exporting(x) /\ pc[x] = "close"
              THEN Nothing ELSE IF file = Empty THEN seen[w] ELSE Nothing
  /\ Answer(w)
  /\ UNCHANGED <<config, seen>>
-----------------------------------------------------------------------------
\* POST /matters/config/import_file: json::parse throws if the file is absent
\* or is not JSON.
Import(w) ==
  IF file \in Texts
  THEN Begin(w, "next", [NoRequest EXCEPT !.op = "import", !.modes = Modes, !.text = file],
             [s \in Slots |-> {}])
  ELSE pc[w] = "idle" /\ UNCHANGED vars

\* Mutant of NextMode: the modes are loaded in any order, the last one not.
NextModeButLast(w) ==
  /\ pc[w] = "next"
  /\ \E m \in req[w].modes :
       /\ req' = [req EXCEPT
            ![w].modes = IF Cardinality(@) = 2 THEN {} ELSE @ \ {m},
            ![w].writes = [s \in SlotsOf(m) |-> req[w].text[s]]]
       /\ Go(w, "write")
  /\ UNCHANGED <<config, file, seen, saved>>

\* load_configs updates one mode after the other, with all its fields.
NextMode(w) ==
  /\ pc[w] = "next"
  /\ \E m \in req[w].modes :
       /\ \A n \in req[w].modes : Rank[m] <= Rank[n]
       /\ req' = [req EXCEPT ![w].modes = @ \ {m},
                             ![w].writes = [s \in SlotsOf(m) |-> req[w].text[s]]]
       /\ Go(w, "write")
  /\ UNCHANGED <<config, file, seen, saved>>

\* "Loaded config file".
Loaded(w) == pc[w] = "next" /\ req[w].modes = {}

EndImport(w) ==
  /\ Loaded(w)
  /\ Answer(w)
  /\ UNCHANGED <<config, file, seen, saved>>

(* exit() on the main thread ends the workers wherever they are; a text    *)
(* still in a stream's buffer is lost.  The next process begins anew.      *)
Restart ==
  /\ config' = Defaults
  /\ pc' = [w \in Workers |-> "idle"]
  /\ req' = [w \in Workers |-> NoRequest]
  /\ seen' = [w \in Workers |-> [s \in Slots |-> {}]]
  /\ UNCHANGED <<file, saved>>

Next ==
  \/ \E w \in Workers :
       \/ Update(w) \/ WriteField(w) \/ EndUpdate(w)
       \/ Export(w) \/ CopyField(w) \/ Open(w) \/ Close(w)
       \/ Import(w) \/ NextMode(w) \/ EndImport(w)
  \/ Restart

Spec == Init /\ [][Next]_vars
-----------------------------------------------------------------------------
TypeOK ==
  /\ config \in Texts
  /\ file \in Texts \cup {Absent, Empty, Broken}
  /\ pc \in [Workers -> {"idle", "write", "dump", "close", "next"}]
  /\ req \in [Workers -> [op : {"none", "update", "export", "import"},
                          modes : SUBSET Modes,
                          writes : UNION {[ss -> Values] : ss \in SUBSET Slots},
                          text : UNION {[ss -> Values] : ss \in SUBSET Slots}]]
  /\ seen \in [Workers -> [Slots -> SUBSET Values]]
  /\ saved \in [Slots -> SUBSET Values] \cup {Nothing}

(* After an export that no other export overlapped, and until the next,    *)
(* the file is whole and has for every field a value the field had during  *)
(* that export: the configuration in force if nobody updated it meanwhile, *)
(* and never one from before the request, whatever updates ran while it    *)
(* was copied without a lock, and also after a restart.                    *)
ExportFresh ==
  saved # Nothing => file \in Texts /\ \A s \in Slots : file[s] \in saved[s]

(* When an import answers that the file is loaded, every field of every    *)
(* mode has the file's value, or one that another worker gave it while the *)
(* import ran: no mode is left out and none is put back afterwards.        *)
ImportApplied ==
  \A w \in Workers : Loaded(w) =>
    \A s \in Slots : config[s] = req[w].text[s] \/ config[s] \in seen[w][s]
=============================================================================
