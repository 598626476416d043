------------------------------ MODULE MCAvatar ------------------------------
EXTENDS AvatarProperties
=============================================================================
