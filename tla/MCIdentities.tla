---------------------------- MODULE MCIdentities ----------------------------
EXTENDS Identities, TLC

CONSTANTS c1, c2, p1, p2, e1, e2, x1

TheCallers == {c1, c2}
ThePhones == {p1, p2}
TheEmails == {e1, e2}

Who(p, e, x) == [phone |-> p, email |-> e, resident |-> x]
Ask(k, new, old) == [kind |-> k, new |-> new, old |-> old]

\* messages and sends: by phone, by email, by both, with or without a resident id
Finds == {Ask("find", Who(p, e, NoValue), Nobody) :
            p \in ThePhones \cup {NoValue}, e \in TheEmails \cup {NoValue}}
         \ {Ask("find", Nobody, Nobody)}
Linked == {Ask("find", Who(p, e, x1), Nobody) : p \in ThePhones, e \in TheEmails}
Visits == {Ask("visit", Nobody, Nobody)}
\* a resident's new address, or a phone given up
Renames_ == {Ask("rename", Who(NoValue, e, x1), Who(NoValue, f, NoValue)) :
               e \in TheEmails, f \in TheEmails}
Converts == {Ask("convert", Who(NoValue, e, NoValue), Nobody) : e \in TheEmails}
Erases == {Ask("erase", Nobody, Who(NoValue, e, NoValue)) : e \in TheEmails}
          \cup {Ask("erase", Nobody, Who(NoValue, NoValue, x1))}

TheAsks == Finds \cup Linked \cup Visits \cup Renames_ \cup Converts \cup Erases

Symmetry == Permutations(TheCallers) \cup Permutations(ThePhones) \cup Permutations(TheEmails)
=============================================================================
