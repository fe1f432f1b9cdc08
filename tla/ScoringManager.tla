--------------------------- MODULE ScoringManager ---------------------------
(***************************************************************************)
(* The referee's program of a match (scoring/manager/manager.py): a list   *)
(* of mechs with their hit points, a row of it that is current, and the    *)
(* fields that show and edit the current mech.  Hits come from the serial  *)
(* line at any time, also while a dialog is open: the dialog runs the      *)
(* event loop, and the handler that opened it goes on afterwards.  The     *)
(* history and the kiosk only show what happened and are left out.         *)
(*                                                                         *)
(* A mech is an object with an identity of its own, apart from its ident.  *)
(***************************************************************************)
EXTENDS Integers, Sequences, FiniteSets, SequencesExt

CONSTANTS
  Idents,    \* the transponders
  MaxMechs,  \* bound: mechs in the list
  MaxHp,     \* bound: hit points, above and below 0
  Sounds     \* files of sounds

ASSUME ScoringAssumption == IsFiniteSet(Idents) /\ MaxMechs \in Nat /\ MaxHp \in Nat

VARIABLES
  mechs,      \* state.mechs, a sequence of objects; the widget has the same rows
  row,        \* currentRow, 0 without
  s_mech,     \* of every object, its ident, hp and sound
  fields,     \* the texts of the edits
  hp_open,    \* propertiesHpEdit is not read only
  dialog      \* the open dialog and the mech it is about

scoringVars == <<mechs, row, s_mech, fields, hp_open, dialog>>

Objects == 1..MaxMechs
Hps == (0 - MaxHp)..MaxHp

NoDialog == [kind |-> "none", mech |-> 0]
NoIdent == 0
Fresh == [ident |-> NoIdent, hp |-> 0, sound |-> "none"]
Texts == [ident: Idents \cup {NoIdent}, hp: Hps, sound: Sounds \cup {"none"}]

ScoringTypeOK ==
  /\ mechs \in Seq(Objects) /\ row \in 0..Len(mechs)
  /\ s_mech \in [Objects -> Texts] /\ fields \in Texts /\ hp_open \in BOOLEAN
  /\ dialog.kind \in {"none", "remove", "sound"}

ScoringInit ==
  /\ mechs = <<>> /\ row = 0 /\ s_mech = [o \in Objects |-> Fresh]
  /\ fields = Fresh /\ hp_open = FALSE /\ dialog = NoDialog

-----------------------------------------------------------------------------
\* _current_mech, 0 for None.
CurrentMech == IF row \in DOMAIN mechs THEN mechs[row] ELSE 0

\* handle_mech_current_row: the fields show the current mech.
Show(list, r, objects) ==
  fields' = IF r \in DOMAIN list THEN objects[list[r]] ELSE fields

\* State.find: the first with the ident, 0 for None.
Find(ident) ==
  LET with == {i \in DOMAIN mechs : s_mech[mechs[i]].ident = ident}
  IN  IF with = {} THEN 0 ELSE mechs[CHOOSE i \in with : \A j \in with : i <= j]

\* Mech(item): an object that is not in the list.
NewObject == CHOOSE o \in Objects : o \notin ToSet(mechs)

\* handle_mech_add_button: the new mech is the last and becomes current.
HandleMechAddButton ==
  /\ dialog = NoDialog /\ Len(mechs) < MaxMechs
  /\ s_mech' = [s_mech EXCEPT ![NewObject] = Fresh]
  /\ mechs' = Append(mechs, NewObject)
  /\ row' = Len(mechs')
  /\ Show(mechs', row', s_mech')
  /\ UNCHANGED <<hp_open, dialog>>

\* _read_serial and _transponder_hit.  Bytes that do not start a packet and packets
\* whose checksum does not match change nothing.  An ident that is not known becomes a mech,
\* by way of the handler of the add button, which makes it current.
TransponderHit(ident) ==
  LET new == Find(ident) = 0
      it  == IF new THEN NewObject ELSE Find(ident)
      old == IF new THEN [Fresh EXCEPT !.ident = ident] ELSE s_mech[it]
      hit == [old EXCEPT !.hp = @ - 1]
  IN  /\ new => Len(mechs) < MaxMechs
      /\ hit.hp \in Hps
      /\ s_mech' = [s_mech EXCEPT ![it] = hit]
      /\ mechs' = IF new THEN Append(mechs, it) ELSE mechs
      /\ row' = IF new THEN Len(mechs') ELSE row
      /\ Show(mechs', row', s_mech')
      /\ UNCHANGED <<hp_open, dialog>>

\* handle_mech_remove_button as far as the question.
AskRemove ==
  /\ dialog = NoDialog /\ CurrentMech # 0
  /\ dialog' = [kind |-> "remove", mech |-> CurrentMech]
  /\ UNCHANGED <<mechs, row, s_mech, fields, hp_open>>

\* The mech the rest of the handler is about.  Mutant: it is looked up again.
Asked_Current == CurrentMech

Asked == dialog.mech

\* The row Qt makes current when row i is taken out.
RowAfterTake(i) == IF row > i \/ (row = i /\ i = Len(mechs)) THEN row - 1 ELSE row

\* and after the question, answered with yes or no.
AnswerRemove(yes) ==
  /\ dialog.kind = "remove" /\ dialog' = NoDialog
  /\ IF yes
     THEN LET index == CHOOSE i \in DOMAIN mechs : mechs[i] = Asked
          IN  /\ mechs' = RemoveAt(mechs, index)
              /\ row' = RowAfterTake(index)
              /\ s_mech' = [s_mech EXCEPT ![mechs[index]] = Fresh]  \* nobody has it any more
              /\ Show(mechs', row', s_mech')
     ELSE UNCHANGED <<mechs, row, s_mech, fields>>
  /\ UNCHANGED hp_open

\* The referee picks a row of the list.
PickRow(r) ==
  /\ dialog = NoDialog /\ r \in DOMAIN mechs /\ r # row
  /\ row' = r /\ Show(mechs, r, s_mech)
  /\ UNCHANGED <<mechs, s_mech, hp_open, dialog>>

\* handle_set_hp_button.
HandleSetHpButton ==
  /\ dialog = NoDialog /\ CurrentMech # 0 /\ ~hp_open /\ hp_open' = TRUE
  /\ UNCHANGED <<mechs, row, s_mech, fields, dialog>>

\* The referee types into the fields; nothing happens to the mech yet.
Type(ident, hp) ==
  /\ dialog = NoDialog /\ (hp # fields.hp => hp_open)
  /\ fields' = [fields EXCEPT !.ident = ident, !.hp = hp] /\ fields' # fields
  /\ UNCHANGED <<mechs, row, s_mech, hp_open, dialog>>

\* handle_mech_properties, when an edit is finished: the fields go to the mech that is
\* current now.
HandleMechProperties ==
  /\ dialog = NoDialog /\ CurrentMech # 0
  /\ s_mech' = [s_mech EXCEPT ![CurrentMech].ident = fields.ident,
                              ![CurrentMech].hp = IF hp_open THEN fields.hp ELSE @]
  /\ hp_open' = FALSE
  /\ UNCHANGED <<mechs, row, fields, dialog>>

\* _change_hp, of the buttons that add and remove a point.
ChangeHp(delta) ==
  /\ dialog = NoDialog /\ CurrentMech # 0
  /\ s_mech[CurrentMech].hp + delta \in Hps
  /\ s_mech' = [s_mech EXCEPT ![CurrentMech].hp = @ + delta]
  /\ Show(mechs, row, s_mech')
  /\ UNCHANGED <<mechs, row, hp_open, dialog>>

\* handle_sound_button before and after its dialog; a dialog that is cancelled gives
\* an empty name, which is no sound.
AskSound ==
  /\ dialog = NoDialog /\ CurrentMech # 0
  /\ dialog' = [kind |-> "sound", mech |-> CurrentMech]
  /\ UNCHANGED <<mechs, row, s_mech, fields, hp_open>>

AnswerSound(sound) ==
  /\ dialog.kind = "sound" /\ dialog' = NoDialog
  /\ s_mech' = [s_mech EXCEPT ![Asked].sound = sound]
  /\ Show(mechs, row, s_mech')
  /\ UNCHANGED <<mechs, row, hp_open>>

ScoringNext ==
  \/ HandleMechAddButton 
  \/ \E i \in Idents : TransponderHit(i)
  \/ AskRemove \/ \E yes \in BOOLEAN : AnswerRemove(yes)
  \/ \E r \in 1..MaxMechs : PickRow(r)
  \/ HandleSetHpButton
  \/ \E i \in Idents \cup {NoIdent}, hp \in {0, MaxHp} : Type(i, hp)
  \/ HandleMechProperties \/ \E d \in {1, -1} : ChangeHp(d)
  \/ AskSound \/ \E f \in Sounds \cup {"none"} : AnswerSound(f)

-----------------------------------------------------------------------------
\* The mech that is removed is the one the referee was asked about, although a hit of
\* an unknown transponder may have made another one current in the meantime.
RemovedAsConfirmed ==
  [][Len(mechs') < Len(mechs) =>
       \E i \in DOMAIN mechs : mechs[i] = dialog.mech /\ mechs' = RemoveAt(mechs, i)]_scoringVars
=============================================================================
