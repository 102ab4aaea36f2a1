-------------------------- MODULE ConfigFileProofs --------------------------
(***************************************************************************)
(* What exports and imports of the configurations guarantee, for any       *)
(* number of workers, modes, fields and values, although no lock is held.  *)
(***************************************************************************)
EXTENDS ConfigFile, TLAPS

\* The values of some slots.
Partial == UNION {[ss -> Values] : ss \in SUBSET Slots}

Requests == [op : {"none", "update", "export", "import"}, modes : SUBSET Modes,
             writes : Partial, text : Partial]

LEMMA NonePartial == None \in Partial
<1>1. None \in [{} -> Values]
  BY DEF None
<1> QED
  BY <1>1 DEF Partial

LEMMA NoRequestTyped == NoRequest \in Requests
  BY NonePartial DEF NoRequest, Requests

LEMMA PartialDomain ==
  ASSUME NEW f \in Partial
  PROVE  /\ DOMAIN f \subseteq Slots
         /\ \A s \in DOMAIN f : f[s] \in Values
         /\ DOMAIN f = Slots => f \in Texts
  BY DEF Partial, Texts

LEMMA TextsPartial == Texts \subseteq Partial
  BY DEF Partial, Texts

\* One more value, and one less.
LEMMA PartialAdd ==
  ASSUME NEW f \in Partial, NEW s \in Slots, NEW v \in Values
  PROVE  [r \in DOMAIN f \cup {s} |-> IF r = s THEN v ELSE f[r]] \in Partial
<1> DEFINE g == [r \in DOMAIN f \cup {s} |-> IF r = s THEN v ELSE f[r]]
<1>1. DOMAIN f \cup {s} \in SUBSET Slots
  BY PartialDomain
<1>2. g \in [DOMAIN f \cup {s} -> Values]
  BY PartialDomain
<1> QED
  BY <1>1, <1>2 DEF Partial

LEMMA PartialRestrict ==
  ASSUME NEW f \in Partial, NEW ss \in SUBSET DOMAIN f
  PROVE  [r \in ss |-> f[r]] \in Partial
<1>1. ss \in SUBSET Slots
  BY PartialDomain
<1>2. [r \in ss |-> f[r]] \in [ss -> Values]
  BY PartialDomain
<1> QED
  BY <1>1, <1>2 DEF Partial

LEMMA PartialRemove ==
  ASSUME NEW f \in Partial, NEW s
  PROVE  [r \in DOMAIN f \ {s} |-> f[r]] \in Partial
<1>1. DOMAIN f \ {s} \in SUBSET DOMAIN f
  OBVIOUS
<1> QED
  BY <1>1, PartialRestrict
-----------------------------------------------------------------------------
(* The types, and what a worker at each place of its handler holds.        *)
Typed ==
  /\ config \in Texts
  /\ file \in Texts \cup {Absent, Empty, Broken}
  /\ pc \in [Workers -> {"idle", "write", "dump", "close", "next"}]
  /\ req \in [Workers -> Requests]
  /\ seen \in [Workers -> [Slots -> SUBSET Values]]
  /\ saved \in [Slots -> SUBSET Values] \cup {Nothing}

Located ==
  \A w \in Workers :
    /\ pc[w] = "close" => req[w].text \in Texts
    /\ req[w].op = "import" => req[w].text \in Texts
    /\ pc[w] = "next" => req[w].op = "import"
    /\ pc[w] \in {"dump", "close"} => req[w].op = "export"

LEMMA TypedIsTypeOK == Typed => TypeOK
  BY DEF Typed, TypeOK, Requests, Partial

LEMMA InitTyped == Init => Typed /\ Located
<1>1. Defaults \in Texts
  BY ConfigAssumption DEF Defaults, Texts
<1>2. Init => req \in [Workers -> Requests] /\ \A w \in Workers : req[w].op = "none"
  BY NoRequestTyped DEF Init, NoRequest
<1>3. Init => seen \in [Workers -> [Slots -> SUBSET Values]]
  BY DEF Init
<1> QED
  BY <1>1, <1>2, <1>3 DEF Init, Typed, Located

\* A handler begins, with the locals r.
LEMMA BeginTyped ==
  ASSUME Typed, Located, NEW w \in Workers, NEW s \in {"write", "dump", "next"},
         NEW r \in Requests, NEW values \in [Slots -> SUBSET Values],
         Begin(w, s, r, values),
         r.op = "import" => r.text \in Texts,
         s = "next" => r.op = "import",
         s = "dump" => r.op = "export"
  PROVE  (Typed /\ Located)'
<1>1. /\ pc' = [pc EXCEPT ![w] = s]
      /\ req' = [req EXCEPT ![w] = r]
      /\ seen' = [seen EXCEPT ![w] = values]
      /\ UNCHANGED <<config, file, saved>>
  BY DEF Begin, Go
<1>2. Typed'
  <2>1. seen' \in [Workers -> [Slots -> SUBSET Values]]
    BY <1>1 DEF Typed
  <2>2. req' \in [Workers -> Requests]
    BY <1>1 DEF Typed
  <2> QED
    BY <1>1, <2>1, <2>2 DEF Typed
<1>3. Located'
  BY <1>1 DEF Typed, Located
<1> QED
  BY <1>2, <1>3

\* The locals of a worker between two steps of its handler.
LEMMA LocalsTyped ==
  ASSUME Typed, NEW w \in Workers, NEW r \in Requests, req' = [req EXCEPT ![w] = r]
  PROVE  /\ req' \in [Workers -> Requests]
         /\ req'[w] = r
         /\ \A x \in Workers \ {w} : req'[x] = req[x]
  BY DEF Typed

LEMMA SlotFacts ==
  ASSUME NEW m \in Modes
  PROVE  SlotsOf(m) \subseteq Slots
  BY DEF SlotsOf

LEMMA StepTyped == Typed /\ Located /\ [Next]_vars => (Typed /\ Located)'
<1> SUFFICES ASSUME Typed, Located, [Next]_vars
             PROVE  (Typed /\ Located)'
  OBVIOUS
<1>1. CASE UNCHANGED vars
  BY <1>1 DEF vars, Typed, Located
<1>2. CASE Restart
  <2>1. Defaults \in Texts
    BY ConfigAssumption DEF Defaults, Texts
  <2> QED
    BY <1>2, <2>1, NoRequestTyped DEF Restart, Typed, Located, NoRequest
<1>3. ASSUME NEW w \in Workers, Update(w) PROVE (Typed /\ Located)'
  <2>1. PICK m \in Modes : \E ss \in SUBSET SlotsOf(m) : \E u \in [ss -> Values] :
               Begin(w, "write", [NoRequest EXCEPT !.op = "update", !.writes = u],
                     [s \in Slots |-> {}])
    BY <1>3 DEF Update
  <2>2. PICK ss \in SUBSET SlotsOf(m) : \E u \in [ss -> Values] :
               Begin(w, "write", [NoRequest EXCEPT !.op = "update", !.writes = u],
                     [s \in Slots |-> {}])
    BY <2>1
  <2>5. PICK u \in [ss -> Values] :
               Begin(w, "write", [NoRequest EXCEPT !.op = "update", !.writes = u],
                     [s \in Slots |-> {}])
    BY <2>2
  <2>3. u \in Partial
    BY SlotFacts DEF Partial
  <2> DEFINE r == [NoRequest EXCEPT !.op = "update", !.writes = u]
  <2>4. r \in Requests /\ r.op = "update"
    BY <2>3, NoRequestTyped DEF Requests, NoRequest
  <2> DEFINE values == [s \in Slots |-> {}]
  <2>6. Begin(w, "write", r, values) /\ values \in [Slots -> SUBSET Values]
    BY <2>5
  <2> HIDE DEF r, values
  <2> QED
    BY <2>4, <2>6, BeginTyped
<1>4. ASSUME NEW w \in Workers, WriteField(w) PROVE (Typed /\ Located)'
  <2>1. PICK s \in DOMAIN req[w].writes :
          LET v == req[w].writes[s] IN
          /\ config' = [config EXCEPT ![s] = v]
          /\ req' = [req EXCEPT ![w].writes = [r \in DOMAIN @ \ {s} |-> @[r]]]
          /\ seen' = [x \in Workers |->
                        IF x = w THEN seen[x] ELSE [seen[x] EXCEPT ![s] = @ \cup {v}]]
    BY <1>4 DEF WriteField
  <2>2. req[w].writes \in Partial
    BY DEF Typed, Requests
  <2>3. s \in Slots /\ req[w].writes[s] \in Values
    BY <2>2, PartialDomain
  <2> DEFINE less == [r \in DOMAIN req[w].writes \ {s} |-> req[w].writes[r]]
             v == req[w].writes[s]
  <2>4. less \in Partial
    BY <2>2, PartialRemove
  <2>5. /\ req' \in [Workers -> Requests]
        /\ \A x \in Workers : req'[x].op = req[x].op /\ req'[x].text = req[x].text
    BY <2>1, <2>4 DEF Typed, Requests
  <2>6. config' \in Texts
    BY <2>1, <2>3 DEF Typed, Texts
  <2>7. seen' \in [Workers -> [Slots -> SUBSET Values]]
    <3>1. \A x \in Workers : [seen[x] EXCEPT ![s] = @ \cup {v}] \in [Slots -> SUBSET Values]
      BY <2>3 DEF Typed
    <3> QED
      BY <2>1, <3>1 DEF Typed
  <2> QED
    BY <1>4, <2>5, <2>6, <2>7 DEF WriteField, Typed, Located
<1>5. ASSUME NEW w \in Workers, EndUpdate(w) \/ EndImport(w) PROVE (Typed /\ Located)'
  <2>1. CASE Answer(w) /\ UNCHANGED <<config, file, seen, saved>>
    BY <2>1, NoRequestTyped DEF Answer, Go, Typed, Located, NoRequest
  <2>2. CASE /\ EndUpdate(w) /\ req[w].op = "import" /\ Go(w, "next")
             /\ UNCHANGED <<req, config, file, seen, saved>>
    BY <2>2 DEF Go, Typed, Located
  <2> QED
    BY <1>5, <2>1, <2>2 DEF EndUpdate, EndImport
<1>6. ASSUME NEW w \in Workers, Export(w) PROVE (Typed /\ Located)'
  <2> DEFINE r == [NoRequest EXCEPT !.op = "export"]
             values == [s \in Slots |-> {config[s]}]
  <2>1. r \in Requests /\ r.op = "export"
    BY NoRequestTyped DEF Requests, NoRequest
  <2>2. values \in [Slots -> SUBSET Values]
    BY DEF Typed, Texts
  <2>3. Begin(w, "dump", r, values)
    BY <1>6 DEF Export
  <2> HIDE DEF r, values
  <2> QED
    BY <2>1, <2>2, <2>3, BeginTyped
<1>7. ASSUME NEW w \in Workers, CopyField(w) PROVE (Typed /\ Located)'
  <2>1. PICK s \in Slots \ DOMAIN req[w].text :
          req' = [req EXCEPT ![w].text =
                    [r \in DOMAIN @ \cup {s} |-> IF r = s THEN config[s] ELSE @[r]]]
    BY <1>7 DEF CopyField
  <2> DEFINE more == [r \in DOMAIN req[w].text \cup {s} |->
                        IF r = s THEN config[s] ELSE req[w].text[r]]
  <2>2. req[w].text \in Partial /\ config[s] \in Values
    BY DEF Typed, Requests, Texts
  <2>3. more \in Partial
    BY <2>2, PartialAdd
  <2>4. /\ req' \in [Workers -> Requests]
        /\ \A x \in Workers : req'[x].op = req[x].op
        /\ \A x \in Workers \ {w} : req'[x].text = req[x].text
    BY <2>1, <2>3 DEF Typed, Requests
  <2>5. pc[w] = "dump" /\ req[w].op = "export"
    BY <1>7 DEF CopyField, Located
  <2> QED
    BY <1>7, <2>4, <2>5 DEF CopyField, Typed, Located
<1>8. ASSUME NEW w \in Workers, Open(w) PROVE (Typed /\ Located)'
  <2>1. req[w].text \in Texts
    BY <1>8, PartialDomain DEF Open, Typed, Requests
  <2> QED
    BY <1>8, <2>1 DEF Open, Go, Typed, Located
<1>9. ASSUME NEW w \in Workers, Close(w) PROVE (Typed /\ Located)'
  <2>1. file' \in Texts \cup {Absent, Empty, Broken}
    BY <1>9 DEF Close, Located
  <2> QED
    BY <1>9, <2>1, NoRequestTyped DEF Close, Answer, Go, Typed, Located, NoRequest
<1>10. ASSUME NEW w \in Workers, Import(w) PROVE (Typed /\ Located)'
  <2>1. CASE file \in Texts
    <3> DEFINE r == [NoRequest EXCEPT !.op = "import", !.modes = Modes, !.text = file]
    <3>1. r \in Requests /\ r.op = "import" /\ r.text \in Texts
      BY <2>1, NoRequestTyped, TextsPartial DEF Requests, NoRequest
    <3>2. Begin(w, "next", r, [s \in Slots |-> {}])
      BY <1>10, <2>1 DEF Import
    <3> HIDE DEF r
    <3> QED
      BY <3>1, <3>2, BeginTyped
  <2>2. CASE file \notin Texts
    BY <1>10, <2>2 DEF Import, vars, Typed, Located
  <2> QED
    BY <2>1, <2>2
<1>11. ASSUME NEW w \in Workers, NextMode(w) PROVE (Typed /\ Located)'
  <2>1. PICK m \in req[w].modes :
          req' = [req EXCEPT ![w].modes = @ \ {m},
                             ![w].writes = [s \in SlotsOf(m) |-> req[w].text[s]]]
    BY <1>11 DEF NextMode
  <2>2. req[w].op = "import" /\ req[w].text \in Texts /\ m \in Modes
    BY <1>11 DEF NextMode, Located, Typed, Requests
  <2>3. [s \in SlotsOf(m) |-> req[w].text[s]] \in Partial
    <3>1. req[w].text \in Partial /\ SlotsOf(m) \in SUBSET DOMAIN req[w].text
      BY <2>2, TextsPartial, SlotFacts DEF Texts
    <3> QED
      BY <3>1, PartialRestrict
  <2>4. /\ req' \in [Workers -> Requests]
        /\ \A x \in Workers : req'[x].op = req[x].op /\ req'[x].text = req[x].text
    BY <2>1, <2>3 DEF Typed, Requests
  <2> QED
    BY <1>11, <2>4 DEF NextMode, Go, Typed, Located
<1> QED
  BY <1>1, <1>2, <1>3, <1>4, <1>5, <1>6, <1>7, <1>8, <1>9, <1>10, <1>11 DEF Next

LEMMA TypedHolds == Spec => [](Typed /\ Located)
  BY InitTyped, StepTyped, PTL DEF Spec

(* The configurations, the file and the locals of the handlers keep their  *)
(* types.                                                                  *)
THEOREM ConfigTypes == Spec => []TypeOK
  BY TypedHolds, TypedIsTypeOK, PTL
-----------------------------------------------------------------------------
(* A worker that exports has copied, of the slots it has copied, a value   *)
(* they had since it began, and the history knows what they have now.      *)
ExportHeld ==
  \A w \in Workers : pc[w] \in {"dump", "close"} => \A s \in Slots :
    /\ config[s] \in seen[w][s]
    /\ s \in DOMAIN req[w].text => req[w].text[s] \in seen[w][s]

ExportInv == ExportHeld /\ ExportFresh

\* What WriteField does, when it writes v to slot s.
Writes(w, s, v) ==
  /\ pc[w] = "write" /\ s \in DOMAIN req[w].writes /\ v = req[w].writes[s]
  /\ config' = [config EXCEPT ![s] = v] /\ UNCHANGED <<file, pc, saved>>
  /\ \A x \in Workers : /\ req'[x].op = req[x].op
                        /\ req'[x].text = req[x].text
                        /\ req'[x].modes = req[x].modes
  /\ \A x \in Workers \ {w} : req'[x] = req[x]
  /\ \A x \in Workers \ {w} : \A r \in Slots :
       seen[x][r] \subseteq seen'[x][r] /\ v \in seen'[x][s]
  /\ seen'[w] = seen[w]
  /\ DOMAIN req'[w].writes = DOMAIN req[w].writes \ {s}
  /\ \A r \in DOMAIN req'[w].writes : req'[w].writes[r] = req[w].writes[r]

LEMMA WriteFieldFacts ==
  ASSUME Typed, NEW w \in Workers, WriteField(w)
  PROVE  \E s \in Slots, v \in Values : Writes(w, s, v)
<1>1. PICK s \in DOMAIN req[w].writes :
        LET v == req[w].writes[s] IN
        /\ config' = [config EXCEPT ![s] = v]
        /\ req' = [req EXCEPT ![w].writes = [r \in DOMAIN @ \ {s} |-> @[r]]]
        /\ seen' = [x \in Workers |->
                      IF x = w THEN seen[x] ELSE [seen[x] EXCEPT ![s] = @ \cup {v}]]
  BY DEF WriteField
<1>2. req[w].writes \in Partial
  BY DEF Typed, Requests
<1> DEFINE v == req[w].writes[s]
           less == [r \in DOMAIN req[w].writes \ {s} |-> req[w].writes[r]]
<1>3. s \in Slots /\ v \in Values
  BY <1>2, PartialDomain
<1>4. /\ \A x \in Workers : /\ req'[x].op = req[x].op
                            /\ req'[x].text = req[x].text
                            /\ req'[x].modes = req[x].modes
      /\ \A x \in Workers \ {w} : req'[x] = req[x]
      /\ req'[w].writes = less
  BY <1>1 DEF Typed, Requests
<1>5. \A x \in Workers \ {w} : \A r \in Slots :
        seen[x][r] \subseteq seen'[x][r] /\ v \in seen'[x][s]
  BY <1>1, <1>3 DEF Typed
<1>6. seen'[w] = seen[w]
  BY <1>1
<1>7. /\ DOMAIN req'[w].writes = DOMAIN req[w].writes \ {s}
      /\ \A r \in DOMAIN req'[w].writes : req'[w].writes[r] = req[w].writes[r]
  BY <1>4
<1>8. config' = [config EXCEPT ![s] = v] /\ UNCHANGED <<file, pc, saved>> /\ pc[w] = "write"
  BY <1>1 DEF WriteField
<1> HIDE DEF v, less
<1>9. v = req[w].writes[s] /\ s \in DOMAIN req[w].writes
  BY DEF v
<1>10. Writes(w, s, v)
  BY <1>4, <1>5, <1>6, <1>7, <1>8, <1>9 DEF Writes
<1> QED
  BY <1>3, <1>10

LEMMA StepExport == Typed /\ Located /\ ExportInv /\ [Next]_vars => ExportInv'
<1> SUFFICES ASSUME Typed, Located, ExportInv, [Next]_vars
             PROVE  ExportInv'
  OBVIOUS
<1> USE DEF ExportInv, ExportHeld, ExportFresh
<1>1. CASE UNCHANGED vars
  BY <1>1 DEF vars
<1>2. CASE Restart
  BY <1>2 DEF Restart
<1>3. ASSUME NEW w \in Workers, Update(w) \/ Import(w) PROVE ExportInv'
  <2>1. \/ UNCHANGED vars
        \/ /\ pc' \in {[pc EXCEPT ![w] = "write"], [pc EXCEPT ![w] = "next"]}
           /\ \A x \in Workers \ {w} : req'[x] = req[x] /\ seen'[x] = seen[x]
           /\ UNCHANGED <<config, file, saved>>
    BY <1>3 DEF Update, Import, Begin, Go, Typed
  <2> QED
    BY <2>1 DEF vars, Typed
<1>4. ASSUME NEW w \in Workers, WriteField(w) PROVE ExportInv'
  <2>1. PICK s \in Slots, v \in Values : Writes(w, s, v)
    BY <1>4, WriteFieldFacts
  <2> QED
    BY <2>1 DEF Writes, Typed, Texts
<1>5. ASSUME NEW w \in Workers, EndUpdate(w) \/ EndImport(w) PROVE ExportInv'
  BY <1>5 DEF EndUpdate, EndImport, Answer, Go, Typed
<1>6. ASSUME NEW w \in Workers, Export(w) PROVE ExportInv'
  <2>1. /\ pc' = [pc EXCEPT ![w] = "dump"]
        /\ req'[w].text = None
        /\ seen'[w] = [s \in Slots |-> {config[s]}]
        /\ \A x \in Workers \ {w} : req'[x] = req[x] /\ seen'[x] = seen[x]
        /\ UNCHANGED <<config, file, saved>>
    BY <1>6 DEF Export, Begin, Go, Typed, NoRequest
  <2> QED
    BY <2>1 DEF Typed, None
<1>7. ASSUME NEW w \in Workers, CopyField(w) PROVE ExportInv'
  <2>1. PICK s \in Slots \ DOMAIN req[w].text :
          req' = [req EXCEPT ![w].text =
                    [r \in DOMAIN @ \cup {s} |-> IF r = s THEN config[s] ELSE @[r]]]
    BY <1>7 DEF CopyField
  <2>2. /\ req'[w].text = [r \in DOMAIN req[w].text \cup {s} |->
                             IF r = s THEN config[s] ELSE req[w].text[r]]
        /\ \A x \in Workers \ {w} : req'[x] = req[x]
    BY <2>1 DEF Typed, Requests
  <2>3. pc[w] = "dump" /\ UNCHANGED <<config, file, pc, seen, saved>>
    BY <1>7 DEF CopyField
  <2> QED
    BY <2>2, <2>3 DEF Typed
<1>8. ASSUME NEW w \in Workers, Open(w) PROVE ExportInv'
  BY <1>8 DEF Open, Go, Typed
<1>9. ASSUME NEW w \in Workers, Close(w) PROVE ExportInv'
  <2>1. req[w].text \in Texts /\ \A s \in Slots : req[w].text[s] \in seen[w][s]
    BY <1>9 DEF Close, Located, Texts
  <2>2. saved' # Nothing => saved' = seen[w] /\ file' = req[w].text
    BY <1>9, ConfigAssumption DEF Close
  <2>3. ExportFresh'
    BY <2>1, <2>2
  <2>4. ExportHeld'
    BY <1>9 DEF Close, Answer, Go, Typed
  <2> QED
    BY <2>3, <2>4
<1>10. ASSUME NEW w \in Workers, NextMode(w) PROVE ExportInv'
  <2>1. /\ pc' = [pc EXCEPT ![w] = "write"]
        /\ \A x \in Workers \ {w} : req'[x] = req[x]
        /\ UNCHANGED <<config, file, seen, saved>>
    BY <1>10 DEF NextMode, Go, Typed
  <2> QED
    BY <2>1 DEF Typed
<1> QED
  BY <1>1, <1>2, <1>3, <1>4, <1>5, <1>6, <1>7, <1>8, <1>9, <1>10 DEF Next

(* For any workers, modes and fields: a file that one export wrote with no *)
(* other beside it is whole and holds values the fields had during that    *)
(* export, whatever updates and imports ran meanwhile and whenever the     *)
(* process was restarted.                                                  *)
THEOREM ExportsFresh == Spec => []ExportFresh
<1>1. Init => ExportInv
  BY DEF Init, ExportInv, ExportHeld, ExportFresh
<1>2. ExportInv => ExportFresh
  BY DEF ExportInv
<1> QED
  BY <1>1, <1>2, StepExport, TypedHolds, PTL DEF Spec
-----------------------------------------------------------------------------
(* A worker that imports has given the file's values to every slot it has  *)
(* been at, unless another worker has since given it one; it has only the  *)
(* file's values to write, and none between two modes.                     *)
Given(w, s) ==
  \/ config[s] = req[w].text[s]
  \/ config[s] \in seen[w][s]
  \/ s \in DOMAIN req[w].writes
  \/ \E m \in req[w].modes : s \in SlotsOf(m)

ImportAt(w) ==
  /\ req[w].op = "import" =>
       /\ \A s \in Slots : Given(w, s)
       /\ \A s \in DOMAIN req[w].writes : req[w].writes[s] = req[w].text[s]
  /\ pc[w] = "next" => DOMAIN req[w].writes = {}

ImportInv == \A w \in Workers : ImportAt(w)

LEMMA SlotsCovered == \A s \in Slots : \E m \in Modes : s \in SlotsOf(m)
  BY DEF Slots, SlotsOf

\* A step of worker w that writes no value leaves the other imports alone.
LEMMA ImportOthers ==
  ASSUME Typed, ImportInv, NEW w \in Workers, UNCHANGED config,
         \A x \in Workers \ {w} :
           req'[x] = req[x] /\ seen'[x] = seen[x] /\ pc'[x] = pc[x],
         ImportAt(w)'
  PROVE  ImportInv'
<1>1. ASSUME NEW x \in Workers \ {w} PROVE ImportAt(x)'
  BY DEF ImportInv, ImportAt, Given
<1> QED
  BY <1>1 DEF ImportInv

LEMMA StepImport == Typed /\ Located /\ ImportInv /\ [Next]_vars => ImportInv'
<1> SUFFICES ASSUME Typed, Located, ImportInv, [Next]_vars
             PROVE  ImportInv'
  OBVIOUS
<1> USE DEF Go
<1>1. CASE UNCHANGED vars
  BY <1>1 DEF vars, ImportInv, ImportAt, Given
<1>2. CASE Restart
  BY <1>2 DEF Restart, NoRequest, ImportInv, ImportAt
<1>3. ASSUME NEW w \in Workers, Update(w) PROVE ImportInv'
  <2>1. PICK m \in Modes : \E ss \in SUBSET SlotsOf(m) : \E u \in [ss -> Values] :
               Begin(w, "write", [NoRequest EXCEPT !.op = "update", !.writes = u],
                     [s \in Slots |-> {}])
    BY <1>3 DEF Update
  <2>2. /\ pc' = [pc EXCEPT ![w] = "write"]
        /\ req'[w].op = "update"
        /\ \A x \in Workers \ {w} : req'[x] = req[x] /\ seen'[x] = seen[x]
        /\ UNCHANGED config
    BY <2>1 DEF Begin, Typed, NoRequest
  <2>3. ImportAt(w)'
    BY <2>2 DEF ImportAt, Typed
  <2> QED
    BY <2>2, <2>3, ImportOthers DEF Typed
<1>4. ASSUME NEW w \in Workers, Export(w) PROVE ImportInv'
  <2>1. /\ pc' = [pc EXCEPT ![w] = "dump"]
        /\ req'[w].op = "export"
        /\ \A x \in Workers \ {w} : req'[x] = req[x] /\ seen'[x] = seen[x]
        /\ UNCHANGED config
    BY <1>4 DEF Export, Begin, Typed, NoRequest
  <2>2. ImportAt(w)'
    BY <2>1 DEF ImportAt, Typed
  <2> QED
    BY <2>1, <2>2, ImportOthers DEF Typed
<1>5. ASSUME NEW w \in Workers, WriteField(w) PROVE ImportInv'
  <2>1. PICK s \in Slots, v \in Values : Writes(w, s, v)
    BY <1>5, WriteFieldFacts
  <2>2. config'[s] = v /\ \A r \in Slots \ {s} : config'[r] = config[r]
    BY <2>1 DEF Writes, Typed, Texts
  <2>3. ASSUME NEW x \in Workers \ {w} PROVE ImportAt(x)'
    <3>1. ASSUME req[x].op = "import", NEW r \in Slots PROVE Given(x, r)'
      <4>1. CASE r = s
        BY <2>1, <2>2, <4>1 DEF Writes, Given
      <4>2. CASE r # s
        BY <2>1, <2>2, <3>1, <4>2 DEF Writes, Given, ImportInv, ImportAt
      <4> QED
        BY <4>1, <4>2
    <3> QED
      BY <2>1, <3>1 DEF Writes, ImportInv, ImportAt
  <2>4. ImportAt(w)'
    <3>1. ASSUME req[w].op = "import", NEW r \in Slots PROVE Given(w, r)'
      <4>1. CASE r = s
        BY <2>1, <2>2, <3>1, <4>1 DEF Writes, Given, ImportInv, ImportAt
      <4>2. CASE r # s
        <5>1. Given(w, r)
          BY <3>1 DEF ImportInv, ImportAt
        <5> QED
          BY <2>1, <2>2, <4>2, <5>1 DEF Writes, Given
      <4> QED
        BY <4>1, <4>2
    <3>2. req[w].op = "import" =>
            \A r \in DOMAIN req'[w].writes : req'[w].writes[r] = req'[w].text[r]
      BY <2>1 DEF Writes, ImportInv, ImportAt
    <3> QED
      BY <2>1, <3>1, <3>2 DEF Writes, ImportAt
  <2> QED
    BY <2>3, <2>4 DEF ImportInv
<1>6. ASSUME NEW w \in Workers, EndUpdate(w) \/ EndImport(w) \/ Close(w) PROVE ImportInv'
  <2>1. CASE Answer(w) /\ UNCHANGED <<config, seen>>
    <3>1. ImportAt(w)'
      BY <2>1 DEF Answer, Typed, NoRequest, ImportAt
    <3> QED
      BY <2>1, <3>1, ImportOthers DEF Answer, Typed
  <2>2. CASE /\ DOMAIN req[w].writes = {} /\ Go(w, "next")
             /\ UNCHANGED <<req, config, seen>>
    <3>1. ImportAt(w)'
      BY <2>2 DEF Typed, ImportInv, ImportAt, Given
    <3> QED
      BY <2>2, <3>1, ImportOthers DEF Typed
  <2> QED
    BY <1>6, <2>1, <2>2 DEF EndUpdate, EndImport, Close
<1>7. ASSUME NEW w \in Workers, CopyField(w) PROVE ImportInv'
  <2>1. /\ req'[w].op = "export"
        /\ \A x \in Workers \ {w} : req'[x] = req[x]
        /\ pc[w] = "dump"
        /\ UNCHANGED <<config, pc, seen>>
    BY <1>7 DEF CopyField, Typed, Requests, Located
  <2>2. ImportAt(w)'
    BY <2>1 DEF ImportAt
  <2> QED
    BY <2>1, <2>2, ImportOthers
<1>8. ASSUME NEW w \in Workers, Open(w) PROVE ImportInv'
  <2>1. ImportAt(w)'
    BY <1>8 DEF Open, Typed, ImportInv, ImportAt, Given
  <2> QED
    BY <1>8, <2>1, ImportOthers DEF Open, Typed
<1>9. ASSUME NEW w \in Workers, Import(w) PROVE ImportInv'
  <2>1. CASE file \in Texts
    <3> DEFINE r == [NoRequest EXCEPT !.op = "import", !.modes = Modes, !.text = file]
    <3>1. r.modes = Modes /\ r.writes = None
      BY DEF NoRequest
    <3> HIDE DEF r
    <3>2. /\ pc' = [pc EXCEPT ![w] = "next"] /\ UNCHANGED config
          /\ req' = [req EXCEPT ![w] = r]
          /\ \A x \in Workers \ {w} : seen'[x] = seen[x]
      BY <1>9, <2>1 DEF Import, Begin, Typed, r
    <3>3. req'[w] = r /\ \A x \in Workers \ {w} : req'[x] = req[x]
      BY <3>2 DEF Typed
    <3>4. \A s \in Slots : Given(w, s)'
      BY <3>1, <3>3, SlotsCovered DEF Given
    <3>5. ImportAt(w)'
      BY <3>1, <3>3, <3>4 DEF ImportAt, None
    <3> QED
      BY <3>2, <3>3, <3>5, ImportOthers DEF Typed
  <2>2. CASE file \notin Texts
    BY <1>9, <2>2 DEF Import, vars, ImportInv, ImportAt, Given
  <2> QED
    BY <2>1, <2>2
<1>10. ASSUME NEW w \in Workers, NextMode(w) PROVE ImportInv'
  <2>1. PICK m \in req[w].modes :
          req' = [req EXCEPT ![w].modes = @ \ {m},
                             ![w].writes = [s \in SlotsOf(m) |-> req[w].text[s]]]
    BY <1>10 DEF NextMode
  <2>2. /\ req'[w].modes = req[w].modes \ {m}
        /\ req'[w].writes = [s \in SlotsOf(m) |-> req[w].text[s]]
        /\ req'[w].text = req[w].text /\ req'[w].op = req[w].op
        /\ \A x \in Workers \ {w} : req'[x] = req[x]
    BY <2>1 DEF Typed, Requests
  <2>3. pc' = [pc EXCEPT ![w] = "write"] /\ DOMAIN req[w].writes = {}
        /\ UNCHANGED <<config, seen>>
    BY <1>10 DEF NextMode, ImportInv, ImportAt
  <2>4. ASSUME req[w].op = "import", NEW s \in Slots PROVE Given(w, s)'
    <3>1. Given(w, s)
      BY <2>4 DEF ImportInv, ImportAt
    <3> QED
      BY <2>2, <2>3, <3>1 DEF Given
  <2>5. ImportAt(w)'
    BY <2>2, <2>3, <2>4 DEF ImportAt, Typed
  <2> QED
    BY <2>2, <2>3, <2>5, ImportOthers DEF Typed
<1> QED
  BY <1>1, <1>2, <1>3, <1>4, <1>5, <1>6, <1>7, <1>8, <1>9, <1>10 DEF Next

(* For any workers, modes and fields: an import that answers "loaded" has  *)
(* given every field of every mode the file's value, and only what another *)
(* worker wrote meanwhile may have replaced it.                            *)
THEOREM ImportsApplied == Spec => []ImportApplied
<1>1. Init => ImportInv
  BY DEF Init, ImportInv, ImportAt, NoRequest, None
<1>2. Located /\ ImportInv => ImportApplied
  BY DEF Located, ImportInv, ImportAt, Given, ImportApplied, Loaded
<1> QED
  BY <1>1, <1>2, StepImport, TypedHolds, PTL DEF Spec
=============================================================================
