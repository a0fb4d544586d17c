---- MODULE Membership ----
(***************************************************************************)
(* Who may log in: the MemberRepository, a map from uid to password, and   *)
(* its filling from a CSV file (controller/src/membership.rs).  A file is  *)
(* a sequence of records, a record the sequence of its fields.             *)
(***************************************************************************)
EXTENDS ExpiringMaps, Sequences

\* The csv reader is not flexible: a record that is not as long as the first
\* one is an error, and filter_map drops it.
IsReadable(csv, record) == Len(record) = Len(csv[1])

\* Faulty variant: a flexible reader, for which a uid and a password are enough.
read_members_flexibly(csv) == {i \in DOMAIN csv : Len(csv[i]) >= 2}

\* The positions of the records that become members.
read_members_from_csv(csv) == {i \in DOMAIN csv : IsReadable(csv, csv[i])}

set_member(members, record) == Insert(members, record[1], record[2])

\* get_member(..).is_some()
has_member(members, uid) == uid \in DOMAIN members

get_member(members, uid) == members[uid]

validate_credentials(members, uid, pwd) ==
    has_member(members, uid) /\ get_member(members, uid) = pwd

====
