--------------------------- MODULE ResourceMatching ---------------------------
(***************************************************************************)
(* Which objects a policy selects: namespace, label and field selectors,   *)
(* and the conditions an object must meet before it may be deleted.        *)
(*                                                                         *)
(* Source: matchesSelectorsShared, meetsConditionsShared and what they     *)
(* call in pkg/controller/shared.go.  Lists of which all or any must hold  *)
(* are sets.  Labels and annotations are functions on the keys present.    *)
(***************************************************************************)
EXTENDS Integers, FiniteSets

CONSTANTS
    LabelKeys, LabelValues,     \* qualified names, label values
    EscapedPaths    \* field paths with an escaped dot, which parseFieldPath splits

Has(labels, key, value) == key \in DOMAIN labels /\ labels[key] = value

\* NestedString; a path split at an escaped dot leads nowhere.
Field(o, path) ==
    IF path \in DOMAIN o.fields \ EscapedPaths /\ o.fields[path].kind = "string"
    THEN {o.fields[path].value} ELSE {}

-----------------------------------------------------------------------------
(* Selectors.                                                              *)

Operators == {"In", "NotIn", "Exists", "DoesNotExist"}

\* The key may be that of a label, and each of the values its value.
AreLabels(key, values) == key \in LabelKeys /\ values \subseteq LabelValues

\* metav1.LabelSelectorAsSelector: values are for In and NotIn only, and keys and values
\* have to be those of possible labels.
Converts(selector) ==
    /\ \A k \in DOMAIN selector.matchLabels : AreLabels(k, {selector.matchLabels[k]})
    /\ \A e \in selector.matchExpressions :
          /\ AreLabels(e.key, e.values)
          /\ e.operator \in Operators /\ (e.values # {} <=> e.operator \in {"In", "NotIn"})

SelectorMatches(labels, selector) ==
    /\ \A k \in DOMAIN selector.matchLabels : Has(labels, k, selector.matchLabels[k])
    /\ \A e \in selector.matchExpressions :
          LET held == e.key \in DOMAIN labels /\ labels[e.key] \in e.values
          IN CASE e.operator = "In"           -> held
               [] e.operator = "NotIn"        -> ~held
               [] e.operator = "Exists"       -> e.key \in DOMAIN labels
               [] e.operator = "DoesNotExist" -> e.key \notin DOMAIN labels

\* What the informer of a target watches: "" is the wildcard of the API server.
NormalizeNamespace(namespace) == IF namespace \in {"", "*"} THEN "" ELSE namespace

Watched(o, target) == NormalizeNamespace(target.namespace) \in {"", o.namespace}

NamespaceMatches(o, target) == target.namespace \in {"", "*", o.namespace}

MatchesSelectors(o, target) ==
    /\ NamespaceMatches(o, target)
    /\ Converts(target)
    /\ SelectorMatches(o.labels, target)
    /\ \A f \in target.matchFields : f.value \in Field(o, f.key)

-----------------------------------------------------------------------------
(* Conditions.                                                             *)

\* "In" has one value only, and none when it is empty.  An unknown operator rejects.
LabelConditionMet(labels, c) ==
    CASE c.operator = "Exists"          -> c.key \in DOMAIN labels
      [] c.operator \in {"Equals", ""}  -> Has(labels, c.key, c.value)
      [] c.operator = "In"              -> c.value # "" /\ Has(labels, c.key, c.value)
      [] c.operator = "NotIn"           -> ~Has(labels, c.key, c.value)
      [] OTHER                          -> FALSE

FieldConditionMet(o, c) ==
    \E v \in Field(o, c.fieldPath) :
        CASE c.operator = "Equals"    -> v = c.value
          [] c.operator = "NotEquals" -> v # c.value
          [] c.operator = "In"        -> v \in c.values
          [] c.operator = "NotIn"     -> v \notin c.values
          [] OTHER                    -> FALSE

\* No conditions are conditions with nothing in them.
MeetsConditions(o, conditions) ==
    /\ conditions.phase # {} => \E p \in conditions.phase : p \in Field(o, "status.phase")
    /\ \A c \in conditions.hasLabels : LabelConditionMet(o.labels, c)
    /\ \A c \in conditions.hasAnnotations : Has(o.annotations, c.key, c.value)
    /\ \A c \in conditions.and : FieldConditionMet(o, c)
================================================================================
