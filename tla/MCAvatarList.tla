---------------------------- MODULE MCAvatarList ----------------------------
EXTENDS AvatarList
=============================================================================
